---- MODULE Spec2Model ----
(***************************************************************************)
(* A model of the product catalogue service of the Atelier API             *)
(* (Fastapi/app): ProductStore over VectorStore over a TiDB vector table.  *)
(*                                                                         *)
(* Python values are tagged records: the tag t is the Python type.  A str  *)
(* is either plain text (field s, never a valid JSON document) or the JSON *)
(* text of a value (field enc, the value json.loads returns for it).       *)
(* Exceptions are results [ok |-> FALSE, exc |-> <class name>].            *)
(***************************************************************************)
EXTENDS Integers, Sequences, FiniteSets, TLC

VARIABLES
    tidb_database_url,      \* settings.tidb_database_url ("" when not configured)
    initialized,            \* ProductStore.initialized
    embedding_initialized,  \* VectorStore._embedding_initialized
    embed_model,            \* VectorStore.embed_model: "none" or "model"
    client,                 \* VectorStore.vector_store: "none" or "client"
    table,                  \* rows of the TiDB table embedded_documents, in insertion order
    uuids,                  \* number of uuid4() values drawn so far
    clock,                  \* number of clock readings so far
    ret,                    \* the last call: operation, arguments, outcome and the calls it made
    created,                \* the Products create_product has returned, in order
    raw,                    \* an untyped input of the pure functions (record, result list or distance)
    out,                    \* what the pure function computed from raw
    tasks,                  \* the requests in flight: where each is suspended, and its locals
    loaded,                 \* number of SentenceTransformer models loaded so far
    connected,              \* number of TiDBVectorClient connections constructed so far
    redis                   \* the Redis key space of the users and their tokens

vars == <<tidb_database_url, initialized, embedding_initialized, embed_model, client, table, uuids, clock, ret, created, raw, out, tasks, loaded, connected, redis>>

storeVars == <<tidb_database_url, initialized, embedding_initialized, embed_model, client, table, uuids, clock, ret, created, tasks, loaded, connected, redis>>

pureVars == <<raw, out>>

-----------------------------------------------------------------------------
(* Bounds of the model *)

\* uuid4() values drawn at most (products created and documents posted)
MaxUuids == 2

\* the largest distance of a raw search result, in units of 1 / DistUnits
MaxDistance == 12

\* the longest raw result list given to the loop of search_products
MaxResults == 2

\* requests that can be in flight at once
MaxTasks == 2

\* users that can be registered
MaxUsers == 2

\* access tokens that can be created
MaxTokens == 2

\* distances and similarity scores are counted in units of 1 / DistUnits
DistUnits == 10

\* the longest text given to chunk_text
MaxText == 6

\* the largest max_chars given to chunk_text
MaxChars == 3

-----------------------------------------------------------------------------
(* Python values *)

None == [t |-> "none"]

Str(s) == [t |-> "str", s |-> s]

JsonText(v) == [t |-> "str", enc |-> v]

Num(n) == [t |-> "num", n |-> n]

List(l) == [t |-> "list", l |-> l]

Tuple(l) == [t |-> "tuple", l |-> l]

Dict(d) == [t |-> "dict", d |-> d]

EmptyDict == Dict(<<>>)

Enum(v) == [t |-> "enum", v |-> v]

Uuid(n) == [t |-> "uuid", n |-> n]

Datetime(n) == [t |-> "datetime", n |-> n]

Url(s) == [t |-> "url", s |-> s]

Obj(attrs, items) == [t |-> "obj", attrs |-> attrs, items |-> items]

Ok(v) == [ok |-> TRUE, v |-> v]

Raise(exc) == [ok |-> FALSE, exc |-> exc]

IsNone(v) == v.t = "none"

\* isinstance(v, str): a str-mixin Enum member is a str too
IsStr(v) == v.t \in {"str", "enum"}

IsDict(v) == v.t = "dict"

IsList(v) == v.t = "list"

IsPlain(v) == v.t = "str" /\ "s" \in DOMAIN v

Has(m, k) == k \in DOMAIN m.d

Get(m, k, default) == IF Has(m, k) THEN m.d[k] ELSE default

\* m with m[k] = v (dict item assignment)
Put(m, k, v) == Dict([x \in DOMAIN m.d \cup {k} |-> IF x = k THEN v ELSE m.d[x]])

\* Python truth value
Truthy(v) ==
    CASE v.t = "none" -> FALSE
      [] v.t = "str" -> IF IsPlain(v) THEN v.s # "" ELSE TRUE
      [] v.t = "num" -> v.n # 0
      [] v.t \in {"list", "tuple"} -> v.l # <<>>
      [] v.t = "dict" -> DOMAIN v.d # {}
      [] OTHER -> TRUE

\* json.loads(v) for a str v
json_loads(v) == IF v.t = "str" /\ "enc" \in DOMAIN v THEN Ok(v.enc) ELSE Raise("JSONDecodeError")

\* str(uuid) and UUID(str)
UuidStr(n) == "uuid-" \o ToString(n)

UuidNums == 1..(MaxUuids + 1)

ParseUuid(s) == IF \E n \in UuidNums : UuidStr(n) = s THEN Ok(Uuid(CHOOSE n \in UuidNums : UuidStr(n) = s)) ELSE Raise("ValidationError")

\* datetime.isoformat() and its parse
IsoFormat(n) == "2026-01-01T00:00:0" \o ToString(n)

ClockNums == 0..(MaxUuids + 1)

ParseDatetime(s) == IF \E n \in ClockNums : IsoFormat(n) = s THEN Ok(Datetime(CHOOSE n \in ClockNums : IsoFormat(n) = s)) ELSE Raise("ValidationError")

-----------------------------------------------------------------------------
(* schemas/product.py: the product schema and its validation *)

ProductCategory == {"all", "patola", "traditional", "modern", "accessories"}

NameMinLength == 2

NameMaxLength == 200

DescriptionMinLength == 10

DescriptionMaxLength == 5000

PriceMax == 1000000

CareMinLength == 10

CareMaxLength == 1000

\* str.strip() on the strings of the model: the padded ones lose their padding
Strip(s) ==
    CASE s = " Silk Scarf " -> "Silk Scarf"
      [] s = " " -> ""
      [] OTHER -> s

\* ' '.join(v.strip().split()): the strings of the model have single inner blanks
StripJoin(s) == Strip(s)

\* re.match(r'^[\w\s\-\'\"]+$', v)
NameCharsOk(s) == s \notin {"", "Tee@Home"}

\* a str field with min_length and max_length
StrField(v, lo, hi) == IF IsPlain(v) /\ lo <= Len(v.s) /\ Len(v.s) <= hi THEN Ok(v) ELSE Raise("ValidationError")

validate_name(v) == IF NameCharsOk(StripJoin(v.s)) THEN Ok(Str(StripJoin(v.s))) ELSE Raise("ValidationError")

NameField(v) == IF StrField(v, NameMinLength, NameMaxLength).ok THEN validate_name(v) ELSE Raise("ValidationError")

PriceField(v) == IF v.t = "num" /\ v.n > 0 /\ v.n <= PriceMax THEN Ok(v) ELSE Raise("ValidationError")

CategoryField(v) ==
    IF v.t = "enum" /\ v.v \in ProductCategory THEN Ok(v)
    ELSE IF IsPlain(v) /\ v.s \in ProductCategory THEN Ok(Enum(v.s))
    ELSE Raise("ValidationError")

validate_materials(v) == IF Strip(v.s) = "" THEN Raise("ValidationError") ELSE Ok(Str(Strip(v.s)))

MaterialsField(v) ==
    IF IsList(v) /\ \A i \in 1..Len(v.l) : IsPlain(v.l[i]) /\ validate_materials(v.l[i]).ok
    THEN Ok(List([i \in 1..Len(v.l) |-> validate_materials(v.l[i]).v]))
    ELSE Raise("ValidationError")

\* _upload_image(image_data, filename): the mock URL, named by a fresh uuid4 and the extension
\* of the file name (its part after the last dot, 'jpg' without a dot); a file name is the
\* sequence of its parts between the dots
upload_image(image_data, filename, drawn) ==
    "https://storage.example.com/products/" \o UuidStr(drawn + 1) \o "."
        \o (IF Len(filename.parts) > 1 THEN filename.parts[Len(filename.parts)] ELSE "jpg")

\* the files callers send with a product: none, one with an extension and one without
Filename(parts) == [t |-> "filename", parts |-> parts]

ImageFiles ==
    { [image_file |-> None, image_filename |-> None],
      [image_file |-> Str("bytes"), image_filename |-> Filename(<<"scarf", "png">>)],
      [image_file |-> Str("bytes"), image_filename |-> Filename(<<"scarf">>)] }

\* the absolute http(s) URLs among the strings of the model
HttpUrls ==
    {"https://example.com/a.jpg", "https://example.com/b.jpg"}
        \cup {upload_image(f.image_file, f.image_filename, n - 1) : f \in ImageFiles \ {[image_file |-> None, image_filename |-> None]}, n \in UuidNums}

\* parse_obj_as(HttpUrl, u)
ParseHttpUrl(u) ==
    IF u.t = "url" THEN Ok(u)
    ELSE IF IsPlain(u) /\ u.s \in HttpUrls THEN Ok(Url(u.s))
    ELSE Raise("ValidationError")

ImageUrlsField(v) ==
    IF IsList(v) /\ \A i \in 1..Len(v.l) : ParseHttpUrl(v.l[i]).ok
    THEN Ok(List([i \in 1..Len(v.l) |-> ParseHttpUrl(v.l[i]).v]))
    ELSE Raise("ValidationError")

OptionalStrField(v) == IF IsNone(v) \/ v.t = "str" THEN Ok(v) ELSE Raise("ValidationError")

UuidField(v) ==
    IF v.t = "uuid" THEN Ok(v)
    ELSE IF IsPlain(v) THEN ParseUuid(v.s)
    ELSE Raise("ValidationError")

DatetimeField(v) ==
    IF v.t = "datetime" THEN Ok(v)
    ELSE IF IsPlain(v) THEN ParseDatetime(v.s)
    ELSE Raise("ValidationError")

FloatListField(v) == IF IsList(v) /\ \A i \in 1..Len(v.l) : v.l[i].t = "num" THEN Ok(v) ELSE Raise("ValidationError")

SimilarityField(v) == IF v.t = "num" /\ 0 <= v.n /\ v.n <= DistUnits THEN Ok(v) ELSE Raise("ValidationError")

RequiredFields == {"name", "description", "price", "category", "care_instructions"}

ProductInDBFields == {"id", "name", "description", "price", "category", "materials", "care_instructions", "image_urls", "ai_description", "created_at", "updated_at", "embeddings", "embed_text"}

\* the value a field takes when the keyword is not given (Field default / default_factory)
FieldDefault(k) ==
    CASE k \in {"materials", "image_urls", "embeddings"} -> List(<<>>)
      [] k \in {"ai_description", "embed_text"} -> None
      [] k = "id" -> Uuid(0)
      [] k \in {"created_at", "updated_at"} -> Datetime(clock)

\* the validation of one keyword of ProductInDB(**kw) / ProductSearchResult(**kw)
ValidateField(k, kw) ==
    IF ~Has(kw, k)
    THEN IF k \in RequiredFields \cup {"similarity_score"} THEN Raise("ValidationError") ELSE Ok(FieldDefault(k))
    ELSE CASE k = "name" -> NameField(kw.d[k])
           [] k = "description" -> StrField(kw.d[k], DescriptionMinLength, DescriptionMaxLength)
           [] k = "price" -> PriceField(kw.d[k])
           [] k = "category" -> CategoryField(kw.d[k])
           [] k = "materials" -> MaterialsField(kw.d[k])
           [] k = "care_instructions" -> StrField(kw.d[k], CareMinLength, CareMaxLength)
           [] k = "image_urls" -> ImageUrlsField(kw.d[k])
           [] k \in {"ai_description", "embed_text"} -> OptionalStrField(kw.d[k])
           [] k = "id" -> UuidField(kw.d[k])
           [] k \in {"created_at", "updated_at"} -> DatetimeField(kw.d[k])
           [] k = "embeddings" -> FloatListField(kw.d[k])
           [] k = "similarity_score" -> SimilarityField(kw.d[k])

\* ProductInDB(**kw): keywords that are no field are ignored
ProductInDB(kw) ==
    IF \A k \in ProductInDBFields : ValidateField(k, kw).ok
    THEN Ok([t |-> "ProductInDB", f |-> [k \in ProductInDBFields |-> ValidateField(k, kw).v]])
    ELSE Raise("ValidationError")

ProductSearchResultFields == ProductInDBFields \cup {"similarity_score"}

\* ProductSearchResult(**kw)
ProductSearchResult(kw) ==
    IF \A k \in ProductSearchResultFields : ValidateField(k, kw).ok
    THEN Ok([t |-> "ProductSearchResult", f |-> [k \in ProductSearchResultFields |-> ValidateField(k, kw).v]])
    ELSE Raise("ValidationError")

-----------------------------------------------------------------------------
(* services/product_store.py: the metadata normalisation of the read paths *)

\* try: json.loads(s)  except: {"meta": s}
DecodeOrWrap(s) == IF json_loads(s).ok THEN json_loads(s).v ELSE Dict([meta |-> s])

\* the first column of a row-like record
FirstOf(doc) == IF Len(doc.l) > 0 THEN doc.l[1] ELSE None

\* the list / tuple arm, the same in both read paths
RowShape(doc) ==
    IF FirstOf(doc).t \in {"dict", "list"} THEN FirstOf(doc)
    ELSE IF IsStr(FirstOf(doc)) THEN DecodeOrWrap(FirstOf(doc))
    ELSE None

\* the object arm, the same in both read paths: attributes, else dict(doc)
ObjectShape(doc) ==
    IF doc.t # "obj" THEN None
    ELSE IF "metadata" \in DOMAIN doc.attrs THEN doc.attrs["metadata"]
    ELSE IF "meta" \in DOMAIN doc.attrs THEN doc.attrs["meta"]
    ELSE doc.items

\* get_product_by_id: the shape detection
ShapeById(doc) ==
    CASE IsDict(doc) -> IF Has(doc, "metadata") THEN doc.d["metadata"]
                        ELSE IF Has(doc, "meta") THEN doc.d["meta"]
                        ELSE doc
      [] doc.t \in {"list", "tuple"} -> RowShape(doc)
      [] IsStr(doc) -> DecodeOrWrap(doc)
      [] OTHER -> ObjectShape(doc)

\* a or b
PyOr(a, b) == IF Truthy(a) THEN a ELSE b

\* get_all_products: the shape detection
ShapeAll(doc) ==
    CASE IsDict(doc) -> PyOr(PyOr(Get(doc, "metadata", None), Get(doc, "meta", None)), doc)
      [] doc.t \in {"list", "tuple"} -> RowShape(doc)
      [] IsStr(doc) -> DecodeOrWrap(doc)
      [] OTHER -> ObjectShape(doc)

\* the second decoding pass: metadata that is still a str
StillStr(m) == IF IsStr(m) THEN DecodeOrWrap(m) ELSE m

NoneToEmpty(m) == IF IsNone(m) THEN EmptyDict ELSE m

\* a nested 'meta' that is a mapping replaces the mapping holding it
UnwrapMeta(m) == IF IsDict(m) /\ Has(m, "meta") /\ IsDict(m.d["meta"]) THEN m.d["meta"] ELSE m

\* the normalisation without its second decoding pass
NormalizeByIdOnce(doc) == UnwrapMeta(NoneToEmpty(ShapeById(doc)))

\* get_product_by_id: the normalised metadata of a record
NormalizeById(doc) == UnwrapMeta(NoneToEmpty(StillStr(ShapeById(doc))))

\* get_all_products: the normalised metadata of a record
NormalizeAll(doc) == UnwrapMeta(NoneToEmpty(StillStr(ShapeAll(doc))))

\* [parse_obj_as(HttpUrl, u) for u in image_urls], the whole list kept as it is when one entry fails
ImageUrlsParsed(image_urls) ==
    IF image_urls.t \in {"list", "tuple"}
    THEN IF \A i \in 1..Len(image_urls.l) : ParseHttpUrl(image_urls.l[i]).ok
         THEN List([i \in 1..Len(image_urls.l) |-> ParseHttpUrl(image_urls.l[i]).v])
         ELSE image_urls
    ELSE image_urls

\* metadata.get(k, default) if isinstance(metadata, dict) else default
GetIfDict(m, k, default) == IF IsDict(m) THEN Get(m, k, default) ELSE default

\* get_product_by_id: the keywords given to ProductInDB
ProductDictById(m, product_id) ==
    Dict([k \in ProductInDBFields |->
        CASE k = "id" -> GetIfDict(m, k, product_id)
          [] k \in {"name", "description", "care_instructions"} -> GetIfDict(m, k, Str(""))
          [] k = "price" -> GetIfDict(m, k, Num(0))
          [] k = "category" -> GetIfDict(m, k, Str("other"))
          [] k \in {"materials", "embeddings"} -> GetIfDict(m, k, List(<<>>))
          [] k = "image_urls" -> ImageUrlsParsed(GetIfDict(m, k, List(<<>>)))
          [] OTHER -> GetIfDict(m, k, None)])

-----------------------------------------------------------------------------
(* services/product_store.py: the per-result loop of search_products *)

\* a float that is not a number; every comparison with it is false
NaN == [t |-> "nan"]

\* float(x)
Float(x) == IF x.t \in {"num", "nan"} THEN Ok(x) ELSE Raise("TypeError")

PyLt(a, b) == a.t = "num" /\ b.t = "num" /\ a.n < b.n

\* min(a, b) and max(a, b): the first argument unless the second is strictly beyond it
PyMin(a, b) == IF PyLt(b, a) THEN b ELSE a

PyMax(a, b) == IF PyLt(a, b) THEN b ELSE a

\* 1.0 - distance, in units of 1 / DistUnits
OneMinus(d) == IF d.t = "nan" THEN NaN ELSE Num(DistUnits - d.n)

\* the conversion without its clamp
Unclamped(d) == OneMinus(d)

\* similarity = max(0.0, min(1.0, 1.0 - distance))
Similarity(d) == PyMax(Num(0), PyMin(Num(DistUnits), OneMinus(d)))

\* dict(x)
ToDict(x) == IF IsDict(x) THEN Ok(x) ELSE Raise("TypeError")

\* metadata and distance of one raw result: the dict arm and the attribute arm
ResultMetadata(result) ==
    IF IsDict(result) THEN Ok(PyOr(Get(result, "metadata", None), EmptyDict))
    ELSE IF result.t = "obj" /\ "metadata" \in DOMAIN result.attrs THEN ToDict(result.attrs["metadata"])
    ELSE Ok(EmptyDict)

ResultDistance(result) ==
    IF IsDict(result) THEN Float(Get(result, "distance", Num(DistUnits)))
    ELSE IF result.t = "obj" /\ "distance" \in DOMAIN result.attrs THEN Float(result.attrs["distance"])
    ELSE Ok(Num(DistUnits))

\* metadata['similarity_score'] = similarity, when metadata is a dict
WithScore(m, similarity) == IF IsDict(m) THEN Put(m, "similarity_score", similarity) ELSE m

SearchRequired == {"id", "name", "description"}

\* the str entries of image_urls parsed; left as it is when one of them fails
SearchImageUrls(m) ==
    IF Has(m, "image_urls") /\ IsList(m.d["image_urls"])
    THEN LET strs == SelectSeq(m.d["image_urls"].l, IsStr)
         IN  IF \A i \in 1..Len(strs) : ParseHttpUrl(strs[i]).ok
             THEN Put(m, "image_urls", List([i \in 1..Len(strs) |-> ParseHttpUrl(strs[i]).v]))
             ELSE m
    ELSE m

\* one turn of the loop: Ok(product), or a failure when the result is skipped
ProcessResult(result) ==
    IF ~ResultMetadata(result).ok \/ ~ResultDistance(result).ok THEN Raise("Exception")
    ELSE LET m == WithScore(StillStr(ResultMetadata(result).v), Similarity(ResultDistance(result).v))
         IN  IF ~IsDict(m) \/ ~(\A k \in SearchRequired : Has(m, k)) THEN Raise("Incomplete")
             ELSE ProductSearchResult(SearchImageUrls(m))

IsOk(r) == r.ok

ValueOf(rs) == [i \in 1..Len(rs) |-> rs[i].v]

\* the list search_products builds from the raw results
ProcessResults(results) == ValueOf(SelectSeq([i \in 1..Len(results) |-> ProcessResult(results[i])], IsOk))

-----------------------------------------------------------------------------
(* The TiDB vector table, as VectorStore uses it *)

Abs(n) == IF n < 0 THEN -n ELSE n

\* SentenceTransformer.encode(text).tolist(): a fixed vector per text
Encode(text) == List(<<Num(Len(text))>>)

\* the distance the table reports between a query vector and a stored one, at most 2.0
Distance(q, e) == IF Abs(q.l[1].n - e.l[1].n) > 2 * DistUnits THEN 2 * DistUnits ELSE Abs(q.l[1].n - e.l[1].n)

\* the JSON document the meta column keeps of a Python value
RECURSIVE ToJson(_)
ToJson(v) ==
    CASE v.t = "enum" -> Str(v.v)
      [] v.t = "dict" -> Dict([k \in DOMAIN v.d |-> ToJson(v.d[k])])
      [] v.t \in {"list", "tuple"} -> List([i \in 1..Len(v.l) |-> ToJson(v.l[i])])
      [] OTHER -> v

\* the row insert() stores for one document
Row(id, text, embedding, metadata) == [id |-> id, document |-> text, embedding |-> embedding, meta |-> ToJson(metadata)]

\* one filter entry against a row: a value to equal, or a mapping of range operators
FilterEntryHolds(meta, k, want) ==
    /\ IsDict(meta)
    /\ Has(meta, k)
    /\ IF IsDict(want)
       THEN /\ meta.d[k].t = "num"
            /\ \A op \in DOMAIN want.d :
                 CASE op = "$gte" -> meta.d[k].n >= want.d[op].n
                   [] op = "$lte" -> meta.d[k].n <= want.d[op].n
                   [] OTHER -> FALSE
       ELSE meta.d[k] = want

FilterHolds(meta, filters) == IsNone(filters) \/ \A k \in DOMAIN filters.d : FilterEntryHolds(meta, k, filters.d[k])

\* the rows of tbl in ascending distance from q (ties in insertion order)
RECURSIVE ByDistance(_, _)
ByDistance(tbl, q) ==
    IF tbl = <<>> THEN <<>>
    ELSE LET best == CHOOSE i \in 1..Len(tbl) :
                        \A j \in 1..Len(tbl) :
                            \/ Distance(q, tbl[i].embedding) < Distance(q, tbl[j].embedding)
                            \/ Distance(q, tbl[i].embedding) = Distance(q, tbl[j].embedding) /\ i <= j
         IN  <<tbl[best]>> \o ByDistance(SubSeq(tbl, 1, best - 1) \o SubSeq(tbl, best + 1, Len(tbl)), q)

FirstK(s, k) == SubSeq(s, 1, IF k < Len(s) THEN k ELSE Len(s))

\* TiDBVectorClient.query(q, k, filters): the k nearest rows that pass the filter
Query(tbl, q, k, filters) ==
    LET Pass(row) == FilterHolds(row.meta, filters)
    IN  FirstK(ByDistance(SelectSeq(tbl, Pass), q), k)

\* the meta column as the driver hands it back: the mapping, or its JSON text
WireShapes == {"mapping", "json"}

OnWire(meta, wire) == IF wire = "json" THEN JsonText(meta) ELSE meta

\* SELECT meta, document, id FROM table WHERE id = :id LIMIT 1
SelectById(tbl, id, wire) ==
    LET Same(row) == Str(row.id) = id
        rows == SelectSeq(tbl, Same)
    IN  [i \in 1..(IF Len(rows) > 0 THEN 1 ELSE 0) |-> Tuple(<<OnWire(rows[i].meta, wire), Str(rows[i].document), Str(rows[i].id)>>)]

-----------------------------------------------------------------------------
(* services/vector_store.py: VectorStore *)

\* a load that leaves a model behind whether it failed or not
ModelSetAnyway(loadOk) == "model"

\* _initialize_embedding_model_async: a failed load is logged and leaves the model unset
ModelAfterLoad(loadOk) == IF ~embedding_initialized /\ loadOk THEN "model" ELSE embed_model

FlagAfterLoad(loadOk) == embedding_initialized \/ loadOk

\* text_to_embedding(text) with the model as it is then
text_to_embedding(model, text, encodeOk) ==
    IF model = "none" THEN Raise("RuntimeError")
    ELSE IF ~encodeOk THEN Raise("Exception")
    ELSE Ok(Encode(text))

DocumentKeys == {"id", "text", "metadata"}

\* an add_documents that swallows a failed insert
add_documents_quiet(cl, model, tbl, documents, encodeOk, insertOk) ==
    IF cl = "none" THEN Raise("RuntimeError")
    ELSE IF \E i \in 1..Len(documents) : ~(\A k \in DocumentKeys : Has(documents[i], k)) THEN Raise("ValueError")
    ELSE IF documents # <<>> /\ ~text_to_embedding(model, documents[1].d["text"].s, encodeOk).ok
         THEN text_to_embedding(model, documents[1].d["text"].s, encodeOk)
    ELSE IF ~insertOk THEN Ok(tbl)
    ELSE Ok(tbl \o [i \in 1..Len(documents) |->
                Row(documents[i].d["id"].s, documents[i].d["text"].s, Encode(documents[i].d["text"].s), documents[i].d["metadata"])])

\* an add_documents that checks its documents and stores none of them
add_documents_dry(cl, model, tbl, documents, encodeOk, insertOk) ==
    IF cl = "none" THEN Raise("RuntimeError")
    ELSE IF \E i \in 1..Len(documents) : ~(\A k \in DocumentKeys : Has(documents[i], k)) THEN Raise("ValueError")
    ELSE IF ~insertOk THEN Raise("Exception")
    ELSE Ok(tbl)

\* add_documents(documents): Ok(the table afterwards) or the exception it raises
add_documents(cl, model, tbl, documents, encodeOk, insertOk) ==
    IF cl = "none" THEN Raise("RuntimeError")
    ELSE IF \E i \in 1..Len(documents) : ~(\A k \in DocumentKeys : Has(documents[i], k)) THEN Raise("ValueError")
    ELSE IF documents # <<>> /\ ~text_to_embedding(model, documents[1].d["text"].s, encodeOk).ok
         THEN text_to_embedding(model, documents[1].d["text"].s, encodeOk)
    ELSE IF ~insertOk THEN Raise("Exception")
    ELSE Ok(tbl \o [i \in 1..Len(documents) |->
                Row(documents[i].d["id"].s, documents[i].d["text"].s, Encode(documents[i].d["text"].s), documents[i].d["metadata"])])

\* the result list search() formats from the rows the table returns
FormatResults(rows, q) ==
    List([i \in 1..Len(rows) |->
        Dict([text |-> Str(rows[i].document), distance |-> Num(Distance(q, rows[i].embedding)), metadata |-> rows[i].meta])])

\* search(query, k, filter_metadata): a plain (not awaitable) list, or the exception it raises
search(cl, model, tbl, query, k, filter_metadata, encodeOk, queryOk) ==
    IF cl = "none" THEN Raise("RuntimeError")
    ELSE IF ~text_to_embedding(model, query.s, encodeOk).ok THEN text_to_embedding(model, query.s, encodeOk)
    ELSE IF ~queryOk THEN Raise("Exception")
    ELSE Ok(FormatResults(Query(tbl, Encode(query.s), k, filter_metadata), Encode(query.s)))

\* _get_document_by_id_sync(doc_id): the document mapping, or None
get_document_by_id_sync(tbl, doc_id, wire, execOk) ==
    IF ~execOk \/ SelectById(tbl, doc_id, wire) = <<>> THEN None
    ELSE Dict([id |-> SelectById(tbl, doc_id, wire)[1].l[3],
               document |-> SelectById(tbl, doc_id, wire)[1].l[2],
               metadata |-> SelectById(tbl, doc_id, wire)[1].l[1]])

\* what a coroutine function returns when called, and await
Coroutine(r) == [t |-> "coroutine", r |-> r]

Await(x) == IF x.t = "coroutine" THEN x.r ELSE Raise("TypeError")

\* async get_document_by_id(doc_id)
get_document_by_id(cl, tbl, doc_id, wire, execOk) ==
    Coroutine(IF cl = "none" THEN Raise("RuntimeError") ELSE Ok(get_document_by_id_sync(tbl, doc_id, wire, execOk)))

-----------------------------------------------------------------------------
(* services/product_store.py: ProductStore *)

\* initialize(): the store afterwards, and whether it raised
Initialize(loadOk, connectOk) ==
    IF initialized
    THEN [ok |-> TRUE, exc |-> "", initialized |-> TRUE, embedding_initialized |-> embedding_initialized,
          embed_model |-> embed_model, client |-> client, calls |-> <<>>]
    ELSE [ok |-> tidb_database_url # "" /\ connectOk,
          exc |-> IF tidb_database_url = "" THEN "ValueError" ELSE IF connectOk THEN "" ELSE "Exception",
          initialized |-> tidb_database_url # "" /\ connectOk,
          embedding_initialized |-> FlagAfterLoad(loadOk),
          embed_model |-> ModelAfterLoad(loadOk),
          client |-> IF tidb_database_url # "" /\ connectOk THEN "client" ELSE client,
          calls |-> (IF embedding_initialized THEN <<>> ELSE <<"load_model">>)
                    \o (IF tidb_database_url = "" THEN <<>> ELSE <<"connect">>)]

\* a _generate_embeddings that answers a failed embedding with a zero vector
zero_vector_embeddings(model, text, encodeOk) ==
    IF text = "" THEN List(<<>>)
    ELSE IF text_to_embedding(model, text, encodeOk).ok THEN text_to_embedding(model, text, encodeOk).v
    ELSE List(<<Num(0)>>)

\* _generate_embeddings(text): [] when the text is empty or the embedding raises
generate_embeddings(model, text, encodeOk) ==
    IF text = "" THEN List(<<>>)
    ELSE IF text_to_embedding(model, text, encodeOk).ok THEN text_to_embedding(model, text, encodeOk).v
    ELSE List(<<>>)

\* str(x) of the objects the model holds
PyStr(x) ==
    CASE x.t = "uuid" -> Str(UuidStr(x.n))
      [] x.t = "datetime" -> Str(IsoFormat(x.n))
      [] x.t = "url" -> Str(x.s)
      [] x.t = "enum" -> Str(x.v)
      [] OTHER -> x

\* _serialize(obj) of create_product
RECURSIVE Serialize(_)
Serialize(obj) ==
    CASE obj.t = "none" -> None
      [] obj.t \in {"str", "num", "enum", "nan"} -> obj
      [] obj.t = "uuid" -> Str(UuidStr(obj.n))
      [] obj.t = "datetime" -> Str(IsoFormat(obj.n))
      [] obj.t = "dict" -> Dict([k \in DOMAIN obj.d |-> Serialize(obj.d[k])])
      [] obj.t \in {"list", "tuple"} -> List([i \in 1..Len(obj.l) |-> Serialize(obj.l[i])])
      [] OTHER -> PyStr(obj)

\* a.update(b)
Update(a, b) == Dict([k \in DOMAIN a.d \cup DOMAIN b.d |-> IF k \in DOMAIN b.d THEN b.d[k] ELSE a.d[k]])

\* a search text that leaves the AI description out
SearchTextWithoutAi(data) == data.d["name"].s \o " " \o data.d["description"].s \o " "

\* f"{name} {description} {ai_description or ''}"
SearchText(data) ==
    data.d["name"].s \o " " \o data.d["description"].s \o " "
        \o (IF Truthy(data.d["ai_description"]) THEN data.d["ai_description"].s ELSE "")

\* product_dict of create_product
ProductDict(data, product_id, now, embeddings) ==
    Update(data, Dict([id |-> product_id, created_at |-> now, updated_at |-> now,
                       ai_description |-> data.d["ai_description"],
                       image_urls |-> List([i \in 1..Len(data.d["image_urls"].l) |-> PyStr(data.d["image_urls"].l[i])]),
                       embeddings |-> embeddings,
                       embed_text |-> Str(SearchText(data)),
                       type |-> Str("product")]))

\* the one document create_product hands to add_documents
ProductDocument(data, product_id, now, embeddings) ==
    Dict([id |-> PyStr(product_id), text |-> Str(SearchText(data)),
          metadata |-> Serialize(ProductDict(data, product_id, now, embeddings))])


\* what a handler did: how it ended, the store afterwards and the calls it made on the way
Outcome(status, exc, value, st, tbl, u, c, calls) ==
    [status |-> status, exc |-> exc, value |-> value, st |-> st, table |-> tbl, uuids |-> u, clock |-> c, calls |-> calls]

\* the calls add_documents makes for one document
AddCalls(cl, model, text, encodeOk) ==
    IF cl = "none" THEN <<"add_documents">>
    ELSE IF ~text_to_embedding(model, text, encodeOk).ok THEN <<"add_documents", "text_to_embedding">>
    ELSE <<"add_documents", "text_to_embedding", "insert">>

\* create_product(product_data)
create_product(data, loadOk, connectOk, encodeOk, encodeOk2, insertOk) ==
    LET st == Initialize(loadOk, connectOk)
        product_id == Uuid(uuids + 1)
        now == Datetime(clock + 1)
        embeddings == generate_embeddings(st.embed_model, SearchText(data), encodeOk)
        added == add_documents(st.client, st.embed_model, table, <<ProductDocument(data, product_id, now, embeddings)>>, encodeOk2, insertOk)
        product == ProductInDB(ProductDict(data, product_id, now, embeddings))
        calls == <<"initialize">> \o st.calls \o <<"text_to_embedding">>
                   \o (IF Truthy(embeddings) THEN AddCalls(st.client, st.embed_model, SearchText(data), encodeOk2) ELSE <<>>)
    IN  IF ~st.ok THEN Outcome("raise", st.exc, None, st, table, uuids, clock, <<"initialize">> \o st.calls)
        ELSE IF Truthy(embeddings) /\ ~added.ok THEN Outcome("raise", added.exc, None, st, table, uuids + 1, clock + 1, calls)
        ELSE IF ~product.ok THEN Outcome("raise", product.exc, None, st, IF Truthy(embeddings) THEN added.v ELSE table, uuids + 1, clock + 1, calls)
        ELSE Outcome("return", "", product.v, st, IF Truthy(embeddings) THEN added.v ELSE table, uuids + 1, clock + 1, calls)

\* whether create_product processes an image: if image_file and image_filename
HasImage(image_file, image_filename) == image_file # None /\ image_filename # None

\* the product data after the image block of create_product: the uploaded URL is put first in
\* image_urls; self._generate_ai_description does not exist, the AttributeError is caught and
\* ai_description stays as it was given
AfterImage(data, image_file, image_filename, drawn) ==
    IF HasImage(image_file, image_filename)
    THEN Put(data, "image_urls", List(<<ParseHttpUrl(Str(upload_image(image_file, image_filename, drawn))).v>> \o data.d["image_urls"].l))
    ELSE data

\* a create_product whose image block lets its exception through
create_product_image_aborting(data, image_file, image_filename, loadOk, connectOk, encodeOk, encodeOk2, insertOk) ==
    LET st == Initialize(loadOk, connectOk)
    IN  IF ~st.ok THEN Outcome("raise", st.exc, None, st, table, uuids, clock, <<"initialize">> \o st.calls)
        ELSE Outcome("raise", "AttributeError", None, st, table, uuids + 1, clock, <<"initialize">> \o st.calls \o <<"upload_image">>)

\* create_product(product_data, image_file, image_filename)
create_product_image(data, image_file, image_filename, loadOk, connectOk, encodeOk, encodeOk2, insertOk) ==
    LET st == Initialize(loadOk, connectOk)
        drawn == IF HasImage(image_file, image_filename) THEN uuids + 1 ELSE uuids
        staged == AfterImage(data, image_file, image_filename, uuids)
        product_id == Uuid(drawn + 1)
        now == Datetime(clock + 1)
        embeddings == generate_embeddings(st.embed_model, SearchText(staged), encodeOk)
        added == add_documents(st.client, st.embed_model, table, <<ProductDocument(staged, product_id, now, embeddings)>>, encodeOk2, insertOk)
        product == ProductInDB(ProductDict(staged, product_id, now, embeddings))
        calls == <<"initialize">> \o st.calls
                   \o (IF HasImage(image_file, image_filename) THEN <<"upload_image", "generate_ai_description">> ELSE <<>>)
                   \o <<"text_to_embedding">>
                   \o (IF Truthy(embeddings) THEN AddCalls(st.client, st.embed_model, SearchText(staged), encodeOk2) ELSE <<>>)
    IN  IF ~st.ok THEN Outcome("raise", st.exc, None, st, table, uuids, clock, <<"initialize">> \o st.calls)
        ELSE IF Truthy(embeddings) /\ ~added.ok THEN Outcome("raise", added.exc, None, st, table, drawn + 1, clock + 1, calls)
        ELSE IF ~product.ok THEN Outcome("raise", product.exc, None, st, IF Truthy(embeddings) THEN added.v ELSE table, drawn + 1, clock + 1, calls)
        ELSE Outcome("return", "", product.v, st, IF Truthy(embeddings) THEN added.v ELSE table, drawn + 1, clock + 1, calls)

\* the inner try of get_product_by_id: the Product, or None
LookUp(st, product_id, wire, execOk) ==
    LET doc == Await(get_document_by_id(st.client, table, product_id, wire, execOk))
    IN  IF ~doc.ok THEN None
        ELSE IF ~Truthy(doc.v) THEN None
        ELSE IF ProductInDB(ProductDictById(NormalizeById(doc.v), product_id)).ok
             THEN ProductInDB(ProductDictById(NormalizeById(doc.v), product_id)).v
        ELSE None

\* an id check that lets the empty string through
AnyStrId(product_id) == IsStr(product_id)

\* not product_id or not isinstance(product_id, str), negated
ValidId(product_id) == Truthy(product_id) /\ IsStr(product_id)

\* get_product_by_id(product_id)
get_product_by_id(product_id, wire, loadOk, connectOk, execOk) ==
    LET st == Initialize(loadOk, connectOk)
        now == [initialized |-> initialized, embedding_initialized |-> embedding_initialized, embed_model |-> embed_model, client |-> client]
    IN  IF ~ValidId(product_id) THEN Outcome("raise", "ValueError", None, now, table, uuids, clock, <<>>)
        ELSE IF ~st.ok THEN Outcome("raise", st.exc, None, st, table, uuids, clock, <<"initialize">> \o st.calls)
        ELSE Outcome("return", "", LookUp(st, product_id, wire, execOk), st, table, uuids, clock,
                     <<"initialize">> \o st.calls \o <<"get_document_by_id">>)

\* search_filters of search_products
SearchFilters(filters) == IF Truthy(filters) THEN Update(Dict([type |-> Str("product")]), filters) ELSE Dict([type |-> Str("product")])

\* the calls search() makes
SearchCalls(cl, model, text, encodeOk) ==
    IF cl = "none" THEN <<"search">>
    ELSE IF ~text_to_embedding(model, text, encodeOk).ok THEN <<"search", "text_to_embedding">>
    ELSE <<"search", "text_to_embedding", "query">>

\* a query check that lets whitespace through
EmptyQuery(query) == ~Truthy(query)

\* not query or not query.strip()
BlankQuery(query) == ~Truthy(query) \/ Strip(query.s) = ""

\* search_products(query, limit, filters)
search_products(query, limit, filters, loadOk, connectOk, encodeOk, queryOk) ==
    LET st == Initialize(loadOk, connectOk)
        now == [initialized |-> initialized, embedding_initialized |-> embedding_initialized, embed_model |-> embed_model, client |-> client]
        found == search(st.client, st.embed_model, table, query, limit, SearchFilters(filters), encodeOk, queryOk)
        calls == <<"initialize">> \o st.calls \o SearchCalls(st.client, st.embed_model, query.s, encodeOk)
    IN  IF BlankQuery(query) THEN Outcome("raise", "ValueError", None, now, table, uuids, clock, <<>>)
        ELSE IF ~st.ok THEN Outcome("raise", st.exc, None, st, table, uuids, clock, <<"initialize">> \o st.calls)
        ELSE IF ~found.ok THEN Outcome("raise", found.exc, None, st, table, uuids, clock, calls)
        ELSE IF ~Await(found.v).ok THEN Outcome("raise", Await(found.v).exc, None, st, table, uuids, clock, calls)
        ELSE Outcome("return", "", List(ProcessResults(Await(found.v).v.l)), st, table, uuids, clock, calls)


\* a ProductUpdate that passed its own validation, and True / False
ProductUpdate(fields) == [t |-> "ProductUpdate", f |-> fields]

Bool(b) == [t |-> "bool", b |-> b]

\* the calls update_product and delete_product make once their arguments are accepted
StubCalls(st) ==
    <<"initialize">> \o st.calls
        \o (IF st.ok THEN <<"get_product_by_id", "initialize", "get_document_by_id">> ELSE <<>>)

\* update_product(product_id, product_data): the existing product, or None
update_product(product_id, product_data, wire, loadOk, connectOk, execOk) ==
    LET st == Initialize(loadOk, connectOk)
        now == [initialized |-> initialized, embedding_initialized |-> embedding_initialized, embed_model |-> embed_model, client |-> client]
    IN  IF ~ValidId(product_id) \/ product_data.t # "ProductUpdate"
        THEN Outcome("raise", "ValueError", None, now, table, uuids, clock, <<>>)
        ELSE IF ~st.ok THEN Outcome("raise", st.exc, None, st, table, uuids, clock, StubCalls(st))
        ELSE Outcome("return", "", LookUp(st, product_id, wire, execOk), st, table, uuids, clock, StubCalls(st))

\* a delete_product that removes the rows of the product it found
delete_product_removing(product_id, wire, loadOk, connectOk, execOk) ==
    LET st == Initialize(loadOk, connectOk)
        now == [initialized |-> initialized, embedding_initialized |-> embedding_initialized, embed_model |-> embed_model, client |-> client]
        Others(row) == Str(row.id) # product_id
    IN  IF ~ValidId(product_id) THEN Outcome("raise", "ValueError", None, now, table, uuids, clock, <<>>)
        ELSE IF ~st.ok THEN Outcome("raise", st.exc, None, st, table, uuids, clock, StubCalls(st))
        ELSE IF LookUp(st, product_id, wire, execOk) = None
             THEN Outcome("return", "", Bool(FALSE), st, table, uuids, clock, StubCalls(st))
        ELSE Outcome("return", "", Bool(TRUE), st, SelectSeq(table, Others), uuids, clock, StubCalls(st))

\* delete_product(product_id): True when the product exists, False when not
delete_product(product_id, wire, loadOk, connectOk, execOk) ==
    LET st == Initialize(loadOk, connectOk)
        now == [initialized |-> initialized, embedding_initialized |-> embedding_initialized, embed_model |-> embed_model, client |-> client]
    IN  IF ~ValidId(product_id) THEN Outcome("raise", "ValueError", None, now, table, uuids, clock, <<>>)
        ELSE IF ~st.ok THEN Outcome("raise", st.exc, None, st, table, uuids, clock, StubCalls(st))
        ELSE Outcome("return", "", Bool(LookUp(st, product_id, wire, execOk) # None), st, table, uuids, clock, StubCalls(st))

\* the document get_all_documents_sync makes of one row
ScannedDoc(row, wire) ==
    Dict([id |-> Str(row.id), document |-> Str(row.document), metadata |-> OnWire(row.meta, wire)])

\* get_all_documents_sync(limit): the rows of SELECT ... LIMIT :limit, or [] whatever went wrong
get_all_documents_sync(cl, tbl, limit, wire, execOk) ==
    IF cl = "none" \/ ~execOk THEN <<>>
    ELSE [i \in 1..Len(FirstK(tbl, limit)) |-> ScannedDoc(tbl[i], wire)]

\* get_all_products: the keywords given to ProductInDB, the id without a fallback
ProductDictAll(m) == ProductDictById(m, None)

\* the body of the loop of get_all_products for one document: the Product, or what was raised
BuildAll(doc) ==
    IF ~IsDict(NormalizeAll(doc)) THEN Raise("AttributeError")
    ELSE ProductInDB(ProductDictAll(NormalizeAll(doc)))

\* a get_all_products whose first invalid document ends the scan
get_all_products_aborting(limit, wire, execOk) ==
    LET st == [initialized |-> initialized, embedding_initialized |-> embedding_initialized, embed_model |-> embed_model, client |-> client]
        docs == get_all_documents_sync(client, table, limit, wire, execOk)
        built == [i \in 1..Len(docs) |-> BuildAll(docs[i])]
        kept == {i \in 1..Len(docs) : \A j \in 1..i : built[j].ok}
    IN  Outcome("return", "", List([i \in 1..Cardinality(kept) |-> built[i].v]), st, table, uuids, clock, <<"get_all_documents">>)

\* get_all_products(limit): the Products of the scanned documents that validate, in scan order;
\* initialize() is not called and nothing is raised
get_all_products(limit, wire, execOk) ==
    LET st == [initialized |-> initialized, embedding_initialized |-> embedding_initialized, embed_model |-> embed_model, client |-> client]
        docs == get_all_documents_sync(client, table, limit, wire, execOk)
        built == [i \in 1..Len(docs) |-> BuildAll(docs[i])]
        Kept(b) == b.ok
        results == SelectSeq(built, Kept)
    IN  Outcome("return", "", List([i \in 1..Len(results) |-> results[i].v]), st, table, uuids, clock, <<"get_all_documents">>)

-----------------------------------------------------------------------------
(* routers/vector.py and main.py: what else reaches the store *)

\* GET /products/search: the filters the endpoint builds from min_price and max_price
EndpointFilters(min_price, max_price) == Dict([price |-> Dict(("$gte" :> min_price) @@ ("$lte" :> max_price))])

\* the id the endpoint reads from its top result
TopId(top) == IF IsDict(top.d["metadata"]) THEN Get(top.d["metadata"], "id", None) ELSE None

\* GET /products/search: embeds the query, asks the index for the nearest row under its own
\* filters and returns the product get_product_by_id finds for the id of that row
search_endpoint(query, min_price, max_price, encodeOk, queryOk, wire, execOk) ==
    LET st == [initialized |-> initialized, embedding_initialized |-> embedding_initialized, embed_model |-> embed_model, client |-> client]
        raw_results == search(client, embed_model, table, query, 1, EndpointFilters(min_price, max_price), encodeOk, queryOk)
        calls == <<"text_to_embedding">> \o SearchCalls(client, embed_model, query.s, encodeOk)
        product == get_product_by_id(TopId(raw_results.v.l[1]), wire, TRUE, TRUE, execOk)
    IN  IF ~text_to_embedding(embed_model, query.s, encodeOk).ok
        THEN Outcome("raise", "HTTP500", None, st, table, uuids, clock, <<"text_to_embedding">>)
        ELSE IF ~raw_results.ok THEN Outcome("raise", "HTTP500", None, st, table, uuids, clock, calls)
        ELSE IF raw_results.v.l = <<>> THEN Outcome("raise", "HTTP404", None, st, table, uuids, clock, calls)
        ELSE IF ~Truthy(TopId(raw_results.v.l[1])) THEN Outcome("raise", "HTTP500", None, st, table, uuids, clock, calls)
        ELSE IF product.status = "raise" THEN Outcome("raise", "HTTP500", None, product.st, table, uuids, clock, calls \o <<"get_product_by_id">>)
        ELSE IF product.value = None THEN Outcome("raise", "HTTP404", None, product.st, table, uuids, clock, calls \o <<"get_product_by_id">>)
        ELSE Outcome("return", "", product.value, product.st, table, uuids, clock, calls \o <<"get_product_by_id">>)

\* create_documents with one document: its id is a fresh uuid4, its metadata gets created_at
create_documents(text, metadata, encodeOk, insertOk) ==
    LET st == [initialized |-> initialized, embedding_initialized |-> embedding_initialized, embed_model |-> embed_model, client |-> client]
        doc == Dict([id |-> Str(UuidStr(uuids + 1)), text |-> text, metadata |-> Put(metadata, "created_at", Str(IsoFormat(clock + 1)))])
        added == add_documents(client, embed_model, table, <<doc>>, encodeOk, insertOk)
    IN  IF added.ok THEN Outcome("return", "", List(<<doc>>), st, added.v, uuids + 1, clock + 1, AddCalls(client, embed_model, text.s, encodeOk))
        ELSE Outcome("raise", "HTTP500", None, st, table, uuids + 1, clock + 1, AddCalls(client, embed_model, text.s, encodeOk))

-----------------------------------------------------------------------------
(* The inputs of the model *)

Description == "A comfortable shirt of organic cotton."

CareInstructions == "Machine wash cold."

ProductData(name, price, category, urls, ai) ==
    Dict([name |-> Str(name), description |-> Str(Description), price |-> Num(price), category |-> Enum(category),
          materials |-> List(<<Str("cotton")>>), care_instructions |-> Str(CareInstructions),
          image_urls |-> List(urls), ai_description |-> ai])

\* ProductCreate values: every field within the constraints of ProductBase, the name in the form validate_name leaves
ProductCreates ==
    { ProductData("Classic Cotton T-Shirt", 30, "traditional", <<>>, None),
      ProductData("Silk Scarf", 60, "modern", <<Url("https://example.com/a.jpg")>>, Str("A soft scarf.")) }

\* the ids callers look up: the uuids that may be drawn, one that never is, and what is no id
LookupIds == {Str(UuidStr(n)) : n \in UuidNums} \cup {Str(""), Num(7)}

DefaultLimit == 10

PriceRange == Dict(("$gte" :> Num(10)) @@ ("$lte" :> Num(50)))

SearchRequest(query, limit, filters) == [query |-> query, limit |-> limit, filters |-> filters]

\* the searches callers make
SearchRequests ==
    { SearchRequest(Str(""), DefaultLimit, None),
      SearchRequest(Str(" "), 1, Dict([price |-> PriceRange])),
      SearchRequest(Str("cotton shirt"), DefaultLimit, None),
      SearchRequest(Str("A soft scarf"), 1, Dict([price |-> PriceRange])),
      SearchRequest(Str("A soft scarf"), DefaultLimit, Dict([type |-> Str("document")])) }

\* metadata clients post to /api/vector/documents: a product-typed record without a name,
\* and a complete record of another kind
PostedMetadata ==
    { Dict([type |-> Str("product"), id |-> Str(UuidStr(MaxUuids + 1)), description |-> Str(Description)]),
      Dict([type |-> Str("document"), id |-> Str(UuidStr(MaxUuids + 1)), name |-> Str(" Silk Scarf "), description |-> Str(Description),
            price |-> Num(20), category |-> Str("modern"), care_instructions |-> Str(CareInstructions),
            updated_at |-> Str(IsoFormat(0))]) }

\* the ids callers update and delete: the first one drawn, one that never is, and the empty one
StubIds == {Str(UuidStr(1)), Str(UuidStr(MaxUuids + 1)), Str("")}

\* the updates callers ask for: an id with a ProductUpdate, and one call without data
UpdateRequests ==
    {[product_id |-> id, product_data |-> ProductUpdate([name |-> Str("Silk Scarf")])] : id \in StubIds}
        \cup {[product_id |-> Str(UuidStr(1)), product_data |-> None]}

\* get_all_products(limit: int = 1000)
DefaultScanLimit == 1000

\* the limits callers scan with
ScanLimits == {1, DefaultScanLimit}

\* the choices the environment has: a load or a connect is only attempted while not initialized
LoadChoices == IF initialized \/ embedding_initialized THEN {TRUE} ELSE BOOLEAN

ConnectChoices == IF initialized \/ tidb_database_url = "" THEN {TRUE} ELSE BOOLEAN

\* a later step of a request can only fail when the earlier ones went through
After(earlier) == IF earlier THEN BOOLEAN ELSE {TRUE}

-----------------------------------------------------------------------------
(* The catalogue as a state machine: one action per request *)

NoCall == [op |-> "none"]

Tasks == 1..MaxTasks

\* a request slot with no request in it
Idle == [at |-> "idle"]

NotComputed == [done |-> FALSE]

\* a Redis without keys: user:seq, user:id:{id}, user:email:{email}, user:passid:{passid}
\* and token:{id} are the keys it can hold
NoKeys == [seq |-> 0, users |-> <<>>, emails |-> <<>>, passids |-> <<>>, tokens |-> <<>>]

StoreInit ==
    /\ tidb_database_url \in {"", "mysql://tidb"}
    /\ initialized = FALSE
    /\ embedding_initialized = FALSE
    /\ embed_model = "none"
    /\ client = "none"
    /\ table = <<>>
    /\ uuids = 0
    /\ clock = 0
    /\ ret = NoCall
    /\ created = <<>>
    /\ tasks = [t \in Tasks |-> Idle]
    /\ loaded = 0
    /\ connected = 0
    /\ redis = NoKeys

Init == StoreInit /\ raw = None /\ out = NotComputed

\* the store after a handler
Becomes(h) ==
    /\ initialized' = h.st.initialized
    /\ embedding_initialized' = h.st.embedding_initialized
    /\ embed_model' = h.st.embed_model
    /\ client' = h.st.client
    /\ table' = h.table
    /\ uuids' = h.uuids
    /\ clock' = h.clock
    /\ loaded' = IF embed_model = "none" /\ h.st.embed_model = "model" THEN loaded + 1 ELSE loaded
    /\ connected' = IF client = "none" /\ h.st.client = "client" THEN connected + 1 ELSE connected

\* what ret keeps of a handler's outcome
Returned(h) == [status |-> h.status, exc |-> h.exc, value |-> h.value, calls |-> h.calls]

Lifespan(loadOk, connectOk) ==
    LET st == Initialize(loadOk, connectOk)
    IN  /\ initialized' = st.initialized
        /\ embedding_initialized' = st.embedding_initialized
        /\ embed_model' = st.embed_model
        /\ client' = st.client
        /\ loaded' = IF embed_model = "none" /\ st.embed_model = "model" THEN loaded + 1 ELSE loaded
        /\ connected' = IF client = "none" /\ st.client = "client" THEN connected + 1 ELSE connected
        /\ ret' = [op |-> "lifespan"] @@ Returned(Outcome(IF st.ok THEN "return" ELSE "raise", st.exc, None, st, table, uuids, clock, <<"initialize">> \o st.calls))
        /\ UNCHANGED <<tidb_database_url, table, uuids, clock, created, raw, out, tasks, redis>>

CreateProduct(data, loadOk, connectOk, encodeOk, encodeOk2, insertOk) ==
    LET h == create_product(data, loadOk, connectOk, encodeOk, encodeOk2, insertOk)
    IN  /\ uuids < MaxUuids
        /\ Becomes(h)
        /\ ret' = [op |-> "create_product", data |-> data, inserted |-> insertOk,
                   embed_failed |-> h.st.ok /\ ~text_to_embedding(h.st.embed_model, SearchText(data), encodeOk).ok] @@ Returned(h)
        /\ created' = IF h.status = "return" THEN Append(created, h.value) ELSE created
        /\ UNCHANGED <<tidb_database_url, raw, out, tasks, redis>>

GetProductById(product_id, wire, loadOk, connectOk, execOk) ==
    LET h == get_product_by_id(product_id, wire, loadOk, connectOk, execOk)
    IN  /\ Becomes(h)
        /\ ret' = [op |-> "get_product_by_id", product_id |-> product_id, answered |-> execOk] @@ Returned(h)
        /\ UNCHANGED <<tidb_database_url, created, raw, out, tasks, redis>>

SearchProducts(req, loadOk, connectOk, encodeOk, queryOk) ==
    LET h == search_products(req.query, req.limit, req.filters, loadOk, connectOk, encodeOk, queryOk)
    IN  /\ Becomes(h)
        /\ ret' = [op |-> "search_products", req |-> req, answered |-> queryOk, index_filter |-> SearchFilters(req.filters)] @@ Returned(h)
        /\ UNCHANGED <<tidb_database_url, created, raw, out, tasks, redis>>

CreateDocuments(text, metadata, encodeOk, insertOk) ==
    LET h == create_documents(text, metadata, encodeOk, insertOk)
    IN  /\ uuids < MaxUuids
        /\ Becomes(h)
        /\ ret' = [op |-> "create_documents", metadata |-> metadata] @@ Returned(h)
        /\ UNCHANGED <<tidb_database_url, created, raw, out, tasks, redis>>

UpdateProduct(req, wire, loadOk, connectOk, execOk) ==
    LET h == update_product(req.product_id, req.product_data, wire, loadOk, connectOk, execOk)
    IN  /\ Becomes(h)
        /\ ret' = [op |-> "update_product", product_id |-> req.product_id, product_data |-> req.product_data, answered |-> execOk] @@ Returned(h)
        /\ UNCHANGED <<tidb_database_url, created, raw, out, tasks, redis>>

DeleteProduct(product_id, wire, loadOk, connectOk, execOk) ==
    LET h == delete_product(product_id, wire, loadOk, connectOk, execOk)
    IN  /\ Becomes(h)
        /\ ret' = [op |-> "delete_product", product_id |-> product_id, answered |-> execOk] @@ Returned(h)
        /\ UNCHANGED <<tidb_database_url, created, raw, out, tasks, redis>>

SearchEndpoint(query, min_price, max_price, encodeOk, queryOk, wire, execOk) ==
    LET h == search_endpoint(query, min_price, max_price, encodeOk, queryOk, wire, execOk)
    IN  /\ Becomes(h)
        /\ ret' = [op |-> "search_endpoint", query |-> query, answered |-> queryOk,
                   index_filter |-> EndpointFilters(min_price, max_price)] @@ Returned(h)
        /\ UNCHANGED <<tidb_database_url, created, raw, out, tasks, redis>>

GetAllProducts(limit, wire, execOk) ==
    LET h == get_all_products(limit, wire, execOk)
    IN  /\ Becomes(h)
        /\ ret' = [op |-> "get_all_products", limit |-> limit, wire |-> wire, answered |-> execOk] @@ Returned(h)
        /\ UNCHANGED <<tidb_database_url, created, raw, out, tasks, redis>>

Next ==
    \/ \E loadOk \in LoadChoices, connectOk \in ConnectChoices : Lifespan(loadOk, connectOk)
    \/ \E data \in ProductCreates, loadOk \in LoadChoices, connectOk \in ConnectChoices, encodeOk \in BOOLEAN :
          \E encodeOk2 \in After(encodeOk) : \E insertOk \in After(encodeOk /\ encodeOk2) :
             CreateProduct(data, loadOk, connectOk, encodeOk, encodeOk2, insertOk)
    \/ \E product_id \in LookupIds, loadOk \in LoadChoices, connectOk \in ConnectChoices :
          \E execOk \in After(ValidId(product_id)) : \E wire \in IF execOk THEN WireShapes ELSE {"mapping"} :
             GetProductById(product_id, wire, loadOk, connectOk, execOk)
    \/ \E req \in SearchRequests, loadOk \in LoadChoices, connectOk \in ConnectChoices :
          \E encodeOk \in After(~BlankQuery(req.query)) : \E queryOk \in After(encodeOk) :
             SearchProducts(req, loadOk, connectOk, encodeOk, queryOk)
    \/ \E metadata \in PostedMetadata, encodeOk \in BOOLEAN :
          \E insertOk \in After(encodeOk) : CreateDocuments(Str("a note"), metadata, encodeOk, insertOk)
    \/ \E req \in UpdateRequests, loadOk \in LoadChoices, connectOk \in ConnectChoices :
          \E execOk \in After(ValidId(req.product_id) /\ req.product_data # None) : \E wire \in IF execOk THEN WireShapes ELSE {"mapping"} :
             UpdateProduct(req, wire, loadOk, connectOk, execOk)
    \/ \E product_id \in StubIds, loadOk \in LoadChoices, connectOk \in ConnectChoices :
          \E execOk \in After(ValidId(product_id)) : \E wire \in IF execOk THEN WireShapes ELSE {"mapping"} :
             DeleteProduct(product_id, wire, loadOk, connectOk, execOk)

Spec == Init /\ [][Next]_vars

-----------------------------------------------------------------------------
(* The per-result loop of search_products on the result lists an index can return *)

\* metadata of a complete product, as the meta column keeps it
CompleteMeta(n) ==
    Dict([type |-> Str("product"), id |-> Str(UuidStr(n)), name |-> Str("Silk Scarf"), description |-> Str(Description),
          price |-> Num(60), category |-> Str("modern"), care_instructions |-> Str(CareInstructions),
          materials |-> List(<<Str("silk")>>), image_urls |-> List(<<Str("https://example.com/a.jpg")>>),
          created_at |-> Str(IsoFormat(0)), updated_at |-> Str(IsoFormat(0)), embeddings |-> List(<<Num(3)>>)])

\* the same without its name
NamelessMeta(n) == Dict([k \in DOMAIN CompleteMeta(n).d \ {"name"} |-> CompleteMeta(n).d[k]])

ResultMetas == {CompleteMeta(1), JsonText(CompleteMeta(2)), NamelessMeta(1)}

\* distances from -0.2 to MaxDistance / DistUnits, and the distance that is no number
Distances == {Num(d) : d \in (-2)..MaxDistance} \cup {NaN}

RawResult(distance, metadata) == Dict([text |-> Str("a text"), distance |-> distance, metadata |-> metadata])

RawResults == {RawResult(d, m) : d \in Distances, m \in ResultMetas}

\* the index returns its results in ascending distance
Ascending(results) ==
    \A i, j \in 1..Len(results) :
        i < j /\ results[i].d["distance"].t = "num" /\ results[j].d["distance"].t = "num"
            => results[i].d["distance"].n <= results[j].d["distance"].n

RawResultLists == {List(l) : l \in {r \in UNION {[1..n -> RawResults] : n \in 0..MaxResults} : Ascending(r)}}

InitSearch == StoreInit /\ raw \in RawResultLists /\ out = NotComputed

\* for result in search_results: ...
ProcessSearchResults ==
    /\ out = NotComputed
    /\ out' = [done |-> TRUE, each |-> [i \in 1..Len(raw.l) |-> ProcessResult(raw.l[i])], products |-> ProcessResults(raw.l)]
    /\ UNCHANGED <<storeVars, raw>>

NextSearch == ProcessSearchResults

SpecSearch == InitSearch /\ [][NextSearch]_vars

-----------------------------------------------------------------------------
(* The metadata normalisation of the read paths on the raw records it accepts *)

\* what a record can carry where the metadata is expected
Payloads ==
    { None, EmptyDict, CompleteMeta(1), Dict([meta |-> CompleteMeta(1)]), Dict([meta |-> Str("a note")]),
      Str("a note"), JsonText(CompleteMeta(1)), JsonText(List(<<Num(1)>>)), JsonText(Num(5)), JsonText(None),
      JsonText(Dict([meta |-> CompleteMeta(1)])), List(<<Num(1)>>), Num(5),
      Dict([meta |-> Dict([meta |-> CompleteMeta(1)])]) }

\* the five shapes of a raw record
WithMetadataKey == {Dict([id |-> Str(UuidStr(1)), document |-> Str("a text"), metadata |-> p]) : p \in Payloads}

WithMetaKey == {Dict([id |-> Str(UuidStr(1)), meta |-> p]) : p \in Payloads}

BareMappings == {EmptyDict, CompleteMeta(1), NamelessMeta(1)}

JsonStrings == {p \in Payloads : p.t = "str"}

Sequences ==
    {Tuple(<<p, Str("a text"), Str(UuidStr(1))>>) : p \in Payloads} \cup {List(<<p>>) : p \in Payloads} \cup {Tuple(<<>>), List(<<>>)}

\* row-like objects: with a metadata attribute, with a meta attribute, and with neither
RowObjects ==
    {Obj([metadata |-> p], None) : p \in Payloads} \cup {Obj([meta |-> p], None) : p \in Payloads}
        \cup {Obj(<<>>, CompleteMeta(1)), Obj(<<>>, None)}

\* mappings whose metadata value is falsy while a meta key is present
EmptyMetadataKey == {Dict([metadata |-> p, meta |-> CompleteMeta(1)]) : p \in {None, EmptyDict, Str("")}}

FiveShapes == WithMetadataKey \cup WithMetaKey \cup EmptyMetadataKey \cup BareMappings \cup JsonStrings \cup Sequences

RawDocs == FiveShapes \cup RowObjects

InitNorm == StoreInit /\ raw \in RawDocs /\ out = NotComputed

\* the normalisation step of both read paths on one raw record
NormalizeRecord ==
    /\ out = NotComputed
    /\ out' = [done |-> TRUE, by_id |-> NormalizeById(raw), all |-> NormalizeAll(raw),
               twice |-> NormalizeById(NormalizeById(raw))]
    /\ UNCHANGED <<storeVars, raw>>

NextNorm == NormalizeRecord

SpecNorm == InitNorm /\ [][NextNorm]_vars

-----------------------------------------------------------------------------
(* The read of get_product_by_id on the records the table can hold *)

\* the document get_document_by_id returns for a row with this meta column
StoredDoc(meta) == Dict([id |-> Str(UuidStr(1)), document |-> Str("a text"), metadata |-> meta])

\* the product fields a stored record can carry
StoredFields == DOMAIN CompleteMeta(1).d \ {"type"}

\* records whose metadata lack a subset of the product fields
PartialRecords ==
    {StoredDoc(Dict([k \in S \cup {"type"} |-> CompleteMeta(1).d[k]])) : S \in SUBSET StoredFields}

\* image_urls with entries that are URLs and entries that are none
UrlLists ==
    { <<>>, <<Str("https://example.com/a.jpg")>>, <<Str("not a url")>>,
      <<Str("https://example.com/a.jpg"), Str("not a url")>>,
      <<Str("not a url"), Str("https://example.com/b.jpg")>> }

UrlRecords == {StoredDoc(Put(CompleteMeta(1), "image_urls", List(u))) : u \in UrlLists}

\* the id the caller looks up
LookedUp == Str(UuidStr(2))

\* the inner try of get_product_by_id from the document on: the Product, or None
ReadDocument(doc, product_id) ==
    IF ProductInDB(ProductDictById(NormalizeById(doc), product_id)).ok
    THEN ProductInDB(ProductDictById(NormalizeById(doc), product_id)).v
    ELSE None

InitRead == StoreInit /\ raw \in PartialRecords \cup UrlRecords /\ out = NotComputed

ReadRecord ==
    /\ out = NotComputed
    /\ out' = [done |-> TRUE, product_dict |-> ProductDictById(NormalizeById(raw), LookedUp),
               product |-> ReadDocument(raw, LookedUp)]
    /\ UNCHANGED <<storeVars, raw>>

NextRead == ReadRecord

SpecRead == InitRead /\ [][NextRead]_vars

-----------------------------------------------------------------------------
(* create_product with the image of the product *)

CreateProductImage(data, file, loadOk, connectOk, encodeOk, encodeOk2, insertOk) ==
    LET h == create_product_image(data, file.image_file, file.image_filename, loadOk, connectOk, encodeOk, encodeOk2, insertOk)
    IN  /\ uuids + (IF HasImage(file.image_file, file.image_filename) THEN 1 ELSE 0) < MaxUuids
        /\ Becomes(h)
        /\ ret' = [op |-> "create_product", data |-> data, file |-> file, inserted |-> insertOk,
                   embed_failed |-> h.st.ok /\ ~text_to_embedding(h.st.embed_model, SearchText(data), encodeOk).ok] @@ Returned(h)
        /\ created' = IF h.status = "return" THEN Append(created, h.value) ELSE created
        /\ UNCHANGED <<tidb_database_url, raw, out, tasks, redis>>

NextImages ==
    \/ \E loadOk \in LoadChoices, connectOk \in ConnectChoices : Lifespan(loadOk, connectOk)
    \/ \E data \in ProductCreates, file \in ImageFiles, loadOk \in LoadChoices, connectOk \in ConnectChoices, encodeOk \in BOOLEAN :
          \E encodeOk2 \in After(encodeOk) : \E insertOk \in After(encodeOk /\ encodeOk2) :
             CreateProductImage(data, file, loadOk, connectOk, encodeOk, encodeOk2, insertOk)

SpecImages == Init /\ [][NextImages]_vars

-----------------------------------------------------------------------------
(* The scan of get_all_products and the search endpoint on the catalogues the writes leave *)

\* the catalogue after create_product has indexed one more product, the n-th id drawn
WithProduct(c, data, n) ==
    LET embeddings == generate_embeddings("model", SearchText(data), TRUE)
    IN  [table |-> add_documents("client", "model", c.table, <<ProductDocument(data, Uuid(n), Datetime(n), embeddings)>>, TRUE, TRUE).v,
         created |-> Append(c.created, ProductInDB(ProductDict(data, Uuid(n), Datetime(n), embeddings)).v)]

\* the catalogue after POST /documents has added one more document, the n-th id drawn
WithDocument(c, metadata, n) ==
    LET doc == Dict([id |-> Str(UuidStr(n)), text |-> Str("a note"), metadata |-> Put(metadata, "created_at", Str(IsoFormat(n)))])
    IN  [table |-> add_documents("client", "model", c.table, <<doc>>, TRUE, TRUE).v, created |-> c.created]

\* the catalogues n successful writes leave: the table, and the Products returned
RECURSIVE Catalogues(_)
Catalogues(n) ==
    IF n = 0 THEN {[table |-> <<>>, created |-> <<>>]}
    ELSE {WithProduct(c, data, n) : c \in Catalogues(n - 1), data \in ProductCreates}
             \cup {WithDocument(c, metadata, n) : c \in Catalogues(n - 1), metadata \in PostedMetadata}

\* a store whose initialize() went through, or one it has not been called on or failed on;
\* writes have only happened on a store with its model and its connection
InitReads ==
    /\ \E n \in 0..MaxUuids : \E c \in Catalogues(n) :
           /\ table = c.table
           /\ created = c.created
           /\ uuids = n
           /\ clock = n
           /\ embed_model \in IF n = 0 THEN {"none", "model"} ELSE {"model"}
           /\ client \in IF n = 0 THEN {"none", "client"} ELSE {"client"}
    /\ tidb_database_url \in IF client = "none" THEN {"", "mysql://tidb"} ELSE {"mysql://tidb"}
    /\ initialized = (client = "client")
    /\ embedding_initialized = (embed_model = "model")
    /\ loaded = IF embed_model = "model" THEN 1 ELSE 0
    /\ connected = IF client = "client" THEN 1 ELSE 0
    /\ ret = NoCall
    /\ tasks = [t \in Tasks |-> Idle]
    /\ redis = NoKeys
    /\ raw = None
    /\ out = NotComputed

NextReads ==
    \/ \E limit \in ScanLimits, execOk \in After(client # "none") : \E wire \in IF execOk THEN WireShapes ELSE {"mapping"} :
             GetAllProducts(limit, wire, execOk)
    \/ \E encodeOk \in After(embed_model # "none") : \E queryOk \in After(encodeOk /\ client # "none") :
          \E execOk \in After(queryOk) : \E wire \in IF execOk THEN WireShapes ELSE {"mapping"} :
             SearchEndpoint(Str("A soft scarf"), Num(10), Num(50), encodeOk, queryOk, wire, execOk)

SpecReads == InitReads /\ [][NextReads]_vars

-----------------------------------------------------------------------------
(* The requests of one event loop, interleaved at their suspension points *)

\* a uuid4 that returns the id it returned before
uuid4_repeating(drawn) == Uuid(1)

\* uuid4(): an id no earlier call returned
uuid4(drawn) == Uuid(drawn + 1)

\* the operations the interleaving is taken over
TaskRequests ==
    {[op |-> "initialize"]} \cup {[op |-> "create_product", data |-> d] : d \in ProductCreates}

\* creates that have yet to draw their id
Pending == {t \in Tasks : tasks[t].at = "loading" /\ tasks[t].op = "create_product"}

\* the rest of _initialize_vector_store after the model load: the url check and the client
Connect(model, flag, loads, connectOk) ==
    [ok |-> tidb_database_url # "" /\ connectOk,
     exc |-> IF tidb_database_url = "" THEN "ValueError" ELSE IF connectOk THEN "" ELSE "Exception",
     initialized |-> initialized \/ (tidb_database_url # "" /\ connectOk),
     embedding_initialized |-> flag,
     embed_model |-> model,
     loaded |-> loads,
     client |-> IF tidb_database_url # "" /\ connectOk THEN "client" ELSE client,
     connected |-> IF tidb_database_url # "" /\ connectOk THEN connected + 1 ELSE connected]

\* the store as a request that finds it initialized leaves it
AsItIs ==
    [ok |-> TRUE, exc |-> "", initialized |-> initialized, embedding_initialized |-> embedding_initialized,
     embed_model |-> embed_model, loaded |-> loaded, client |-> client, connected |-> connected]

\* the request of a task ends: its result is recorded and its slot is free again
Finish(t, req, status, exc, value) ==
    /\ tasks' = [tasks EXCEPT ![t] = Idle]
    /\ ret' = [op |-> req.op, task |-> t, status |-> status, exc |-> exc, value |-> value]
    /\ created' = IF req.op = "create_product" /\ status = "return" THEN Append(created, value) ELSE created

\* a request runs on from the end of initialize() to its next suspension point or its end
Proceed(t, req, st, encodeOk) ==
    /\ initialized' = st.initialized
    /\ embedding_initialized' = st.embedding_initialized
    /\ embed_model' = st.embed_model
    /\ client' = st.client
    /\ loaded' = st.loaded
    /\ connected' = st.connected
    /\ UNCHANGED <<tidb_database_url, table, raw, out, redis>>
    /\ IF ~st.ok THEN Finish(t, req, "raise", st.exc, None) /\ UNCHANGED <<uuids, clock>>
       ELSE IF req.op = "initialize" THEN Finish(t, req, "return", "", None) /\ UNCHANGED <<uuids, clock>>
       ELSE LET product_id == uuid4(uuids)
                now == Datetime(clock + 1)
                embeddings == generate_embeddings(st.embed_model, SearchText(req.data), encodeOk)
                product == ProductInDB(ProductDict(req.data, product_id, now, embeddings))
            IN  /\ uuids' = uuids + 1
                /\ clock' = clock + 1
                /\ IF Truthy(embeddings)
                   THEN /\ tasks' = [tasks EXCEPT ![t] = [at |-> "adding", op |-> req.op, data |-> req.data,
                                                          product_id |-> product_id, now |-> now, embeddings |-> embeddings]]
                        /\ UNCHANGED <<ret, created>>
                   ELSE IF product.ok THEN Finish(t, req, "return", "", product.v)
                   ELSE Finish(t, req, "raise", product.exc, None)

\* a request starts in the first free slot and runs to its first suspension point: the model
\* load of the first initialize(), or the insert of a create that found the store initialized
TaskEnter(t, req, connectOk, encodeOk) ==
    /\ tasks[t].at = "idle"
    /\ \A u \in Tasks : u < t => tasks[u].at # "idle"
    /\ req.op = "create_product" => uuids + Cardinality(Pending) < MaxUuids
    /\ IF initialized THEN Proceed(t, req, AsItIs, encodeOk)
       ELSE IF embedding_initialized
       THEN Proceed(t, req, Connect(embed_model, embedding_initialized, loaded, connectOk), encodeOk)
       ELSE /\ tasks' = [tasks EXCEPT ![t] = [at |-> "loading"] @@ req]
            /\ UNCHANGED <<tidb_database_url, initialized, embedding_initialized, embed_model, client, table,
                           uuids, clock, ret, created, raw, out, loaded, connected, redis>>

\* run_in_executor(None, self._load_embedding_sync) completes for a task: the model and the
\* flag are set when the load worked, then the client is constructed and the request runs on
TaskLoaded(t, loadOk, connectOk, encodeOk) ==
    /\ tasks[t].at = "loading"
    /\ Proceed(t, tasks[t],
               Connect(IF loadOk THEN "model" ELSE embed_model, embedding_initialized \/ loadOk,
                       IF loadOk THEN loaded + 1 ELSE loaded, connectOk),
               encodeOk)

\* run_in_executor(None, self.vector_store.add_documents, documents) completes for a task
TaskAdded(t, encodeOk2, insertOk) ==
    /\ tasks[t].at = "adding"
    /\ LET l == tasks[t]
           added == add_documents(client, embed_model, table, <<ProductDocument(l.data, l.product_id, l.now, l.embeddings)>>, encodeOk2, insertOk)
           product == ProductInDB(ProductDict(l.data, l.product_id, l.now, l.embeddings))
       IN  /\ table' = IF added.ok THEN added.v ELSE table
           /\ IF ~added.ok THEN Finish(t, l, "raise", added.exc, None)
              ELSE IF ~product.ok THEN Finish(t, l, "raise", product.exc, None)
              ELSE Finish(t, l, "return", "", product.v)
    /\ UNCHANGED <<tidb_database_url, initialized, embedding_initialized, embed_model, client,
                   uuids, clock, raw, out, loaded, connected, redis>>

\* whether the request of a task will embed a text once initialize() has returned
Embeds(req) == "op" \in DOMAIN req /\ req.op = "create_product"

NextTasks ==
    \/ \E t \in Tasks, req \in TaskRequests :
           \E connectOk \in After(~initialized /\ embedding_initialized /\ tidb_database_url # "") :
               \E encodeOk \in After(Embeds(req) /\ embed_model # "none" /\ (initialized \/ connectOk)) :
                   TaskEnter(t, req, connectOk, encodeOk)
    \/ \E t \in Tasks, loadOk \in BOOLEAN :
           \E connectOk \in After(tidb_database_url # "") :
               \E encodeOk \in After(Embeds(tasks[t]) /\ connectOk /\ (loadOk \/ embed_model # "none")) :
                   TaskLoaded(t, loadOk, connectOk, encodeOk)
    \/ \E t \in Tasks, encodeOk2 \in BOOLEAN :
           \E insertOk \in After(encodeOk2) : TaskAdded(t, encodeOk2, insertOk)

SpecTasks == Init /\ [][NextTasks]_vars

-----------------------------------------------------------------------------
(* controllers/auth.py over utils/redis.py: the requests run in threads, one Redis command a step *)

\* utils/security.py: the hash of a password, and its verification
hash_password(password) == "hash:" \o password

verify_password(password, hashed) == hashed = hash_password(password)

\* utils/security.py: a signed token for the user, different for every time of creation
create_access_token(sub, now) == "token-" \o ToString(sub) \o "-" \o ToString(now)

\* store_token(user_id, token, ex=86400)
TokenTtl == 86400

\* _generate_passid(): ten random characters, taken to be different from every one drawn before
generate_passid(uid) == "PASSID-" \o ToString(uid)

Key(k, keys) == k \in DOMAIN keys

\* get_user_by_email(email) / get_user_by_passid(passid): the user hash the index names, or None
get_user(index, k) ==
    IF ~Key(k, index) THEN None
    ELSE IF ~Key(index[k], redis.users) THEN None
    ELSE Dict(redis.users[index[k]])

Emails == {"ada@example.com", "bob@example.com"}

\* UserCreate values
Registrations == {[op |-> "register_user", email |-> e, name |-> "Ada", password |-> "secret"] : e \in Emails}

\* LoginRequest values: by email with the right and a wrong password, by passid, and with neither
Logins ==
    {[op |-> "login_user", passid |-> "", email |-> "ada@example.com", password |-> pw] : pw \in {"secret", "guess"}}
        \cup {[op |-> "login_user", passid |-> generate_passid(1), email |-> "", password |-> "secret"],
              [op |-> "login_user", passid |-> "", email |-> "", password |-> "secret"]}

\* what the auth requests leave alone
catalogueVars == <<tidb_database_url, initialized, embedding_initialized, embed_model, client, table, uuids, loaded, connected, raw, out>>

\* registrations that have passed a check and have yet to draw their id
Registering == {t \in Tasks : tasks[t].at \in {"exists", "create"}}

\* register_user up to its first command, GET user:email:{email} in get_user_by_email
RegisterStart(t, data) ==
    /\ tasks[t].at = "idle"
    /\ \A u \in Tasks : u < t => tasks[u].at # "idle"
    /\ redis.seq + Cardinality(Registering) < MaxUsers
    /\ IF get_user(redis.emails, data.email) # None
       THEN Finish(t, data, "raise", "HTTP400", None)
       ELSE tasks' = [tasks EXCEPT ![t] = [at |-> "exists"] @@ data] /\ UNCHANGED <<ret, created>>
    /\ UNCHANGED <<catalogueVars, clock, redis>>

\* create_user: EXISTS user:email:{email}
RegisterExists(t) ==
    /\ tasks[t].at = "exists"
    /\ IF Key(tasks[t].email, redis.emails)
       THEN Finish(t, tasks[t], "raise", "ValueError", None)
       ELSE tasks' = [tasks EXCEPT ![t].at = "create"] /\ UNCHANGED <<ret, created>>
    /\ UNCHANGED <<catalogueVars, clock, redis>>

\* create_user: INCR user:seq, the passid, HSET user:id:{uid}; no other request names the
\* new id before an index does
RegisterCreate(t) ==
    /\ tasks[t].at = "create"
    /\ LET uid == redis.seq + 1
           passid == generate_passid(uid)
           user_data == [id |-> Str(ToString(uid)), email |-> Str(tasks[t].email), name |-> Str(tasks[t].name),
                         hashed_password |-> Str(hash_password(tasks[t].password)), passid |-> Str(passid)]
       IN  /\ redis' = [redis EXCEPT !.seq = uid, !.users = (uid :> user_data) @@ @]
           /\ tasks' = [tasks EXCEPT ![t] = [at |-> "set_email", uid |-> uid, passid |-> passid] @@ tasks[t]]
    /\ UNCHANGED <<catalogueVars, clock, ret, created>>

\* create_user: SET user:email:{email} uid
RegisterSetEmail(t) ==
    /\ tasks[t].at = "set_email"
    /\ redis' = [redis EXCEPT !.emails = (tasks[t].email :> tasks[t].uid) @@ @]
    /\ tasks' = [tasks EXCEPT ![t].at = "set_passid"]
    /\ UNCHANGED <<catalogueVars, clock, ret, created>>

\* create_user: SET user:passid:{passid} uid; then the welcome mail, whose failure is passed
\* over, and the RegisterResponse
RegisterSetPassid(t, mailOk) ==
    /\ tasks[t].at = "set_passid"
    /\ redis' = [redis EXCEPT !.passids = (tasks[t].passid :> tasks[t].uid) @@ @]
    /\ Finish(t, tasks[t], "return", "", [t |-> "RegisterResponse", passid |-> tasks[t].passid, uid |-> tasks[t].uid])
    /\ UNCHANGED <<catalogueVars, clock>>

\* login_user up to the credentials check: the user by passid, else by email
LoginStart(t, payload) ==
    /\ tasks[t].at = "idle"
    /\ \A u \in Tasks : u < t => tasks[u].at # "idle"
    /\ LET user == IF payload.passid # "" THEN get_user(redis.passids, payload.passid)
                   ELSE get_user(redis.emails, payload.email)
       IN  IF payload.passid = "" /\ payload.email = "" THEN Finish(t, payload, "raise", "HTTP400", None)
           ELSE IF user = None \/ ~verify_password(payload.password, user.d["hashed_password"].s)
           THEN Finish(t, payload, "raise", "HTTP401", None)
           ELSE /\ tasks' = [tasks EXCEPT ![t] = [at |-> "get_token", op |-> payload.op, uid |-> redis.emails[user.d["email"].s]]]
                /\ UNCHANGED <<ret, created>>
    /\ UNCHANGED <<catalogueVars, clock, redis>>

\* login_user: GET token:{id}; a new token is made when there is none
LoginGetToken(t) ==
    /\ tasks[t].at = "get_token"
    /\ IF Key(tasks[t].uid, redis.tokens)
       THEN /\ tasks' = [tasks EXCEPT ![t] = [at |-> "expire", token |-> redis.tokens[tasks[t].uid].token] @@ tasks[t]]
            /\ UNCHANGED clock
       ELSE /\ clock < MaxTokens
            /\ tasks' = [tasks EXCEPT ![t] = [at |-> "store", token |-> create_access_token(tasks[t].uid, clock + 1)] @@ tasks[t]]
            /\ clock' = clock + 1
    /\ UNCHANGED <<catalogueVars, redis, ret, created>>

\* login_user: EXPIRE token:{id} 86400, which does nothing to a key that is gone, and the cached token
LoginExpire(t) ==
    /\ tasks[t].at = "expire"
    /\ redis' = IF Key(tasks[t].uid, redis.tokens) THEN [redis EXCEPT !.tokens[tasks[t].uid].ttl = TokenTtl] ELSE redis
    /\ Finish(t, tasks[t], "return", "", [t |-> "Token", access_token |-> tasks[t].token, uid |-> tasks[t].uid])
    /\ UNCHANGED <<catalogueVars, clock>>

\* login_user: SETEX token:{id} 86400 new_token, and the new token
LoginStore(t) ==
    /\ tasks[t].at = "store"
    /\ redis' = [redis EXCEPT !.tokens = (tasks[t].uid :> [token |-> tasks[t].token, ttl |-> TokenTtl]) @@ @]
    /\ Finish(t, tasks[t], "return", "", [t |-> "Token", access_token |-> tasks[t].token, uid |-> tasks[t].uid])
    /\ UNCHANGED <<catalogueVars, clock>>

\* time passes: the time a token has left is less than what it was given
TokenAges(uid) ==
    /\ Key(uid, redis.tokens)
    /\ redis.tokens[uid].ttl = TokenTtl
    /\ redis' = [redis EXCEPT !.tokens[uid].ttl = TokenTtl - 1]
    /\ UNCHANGED <<catalogueVars, clock, ret, created, tasks>>

\* the time of a token is over: Redis drops the key
TokenExpires(uid) ==
    /\ Key(uid, redis.tokens)
    /\ redis.tokens[uid].ttl < TokenTtl
    /\ redis' = [redis EXCEPT !.tokens = [k \in DOMAIN @ \ {uid} |-> @[k]]]
    /\ UNCHANGED <<catalogueVars, clock, ret, created, tasks>>

NextAuth ==
    \/ \E t \in Tasks, data \in Registrations : RegisterStart(t, data)
    \/ \E t \in Tasks : RegisterExists(t)
    \/ \E t \in Tasks : RegisterCreate(t)
    \/ \E t \in Tasks : RegisterSetEmail(t)
    \/ \E t \in Tasks, mailOk \in BOOLEAN : RegisterSetPassid(t, mailOk)
    \/ \E t \in Tasks, payload \in Logins : LoginStart(t, payload)
    \/ \E t \in Tasks : LoginGetToken(t)
    \/ \E t \in Tasks : LoginExpire(t)
    \/ \E t \in Tasks : LoginStore(t)
    \/ \E uid \in 1..MaxUsers : TokenAges(uid)
    \/ \E uid \in 1..MaxUsers : TokenExpires(uid)

SpecAuth == Init /\ [][NextAuth]_vars

-----------------------------------------------------------------------------
(* services/dataembedgit_service.py: chunk_text, one pass of its loop a step *)

\* a text of n characters, each character different from the others
TextOfLength(n) == [i \in 1..n |-> ToString(i)]

Texts == {TextOfLength(n) : n \in 0..MaxText}

\* max_chars and overlap with 0 <= overlap < max_chars
ChunkParams == {p \in [max_chars : 1..MaxChars, overlap : 0..(MaxChars - 1)] : p.overlap < p.max_chars}

\* text[start:end] for 0 <= start <= end <= len(text)
Slice(text, start, end) == SubSeq(text, start + 1, end)

\* end = min(n, start + max_chars)
ChunkEnd(n, start, max_chars) == IF n < start + max_chars THEN n ELSE start + max_chars

\* the start of the next pass without the test for the end of the text
ChunkStartAlwaysBack(n, end, overlap) == IF end - overlap < 0 THEN 0 ELSE end - overlap

\* start = end - overlap if end < n else end; if start < 0: start = 0
ChunkStart(n, end, overlap) ==
    LET start == IF end < n THEN end - overlap ELSE end
    IN  IF start < 0 THEN 0 ELSE start

InitChunks ==
    /\ StoreInit
    /\ raw \in {[text |-> text] @@ p : text \in Texts, p \in ChunkParams}
    /\ out = NotComputed

\* chunk_text up to its loop: no chunk for a text that is empty
ChunkEnter ==
    /\ out = NotComputed
    /\ out' = IF raw.text = <<>> THEN [done |-> TRUE, chunks |-> <<>>, start |-> 0]
              ELSE [done |-> FALSE, chunks |-> <<>>, start |-> 0]
    /\ UNCHANGED <<storeVars, raw>>

\* one pass of while start < n
ChunkPass ==
    /\ out # NotComputed /\ ~out.done
    /\ out.start < Len(raw.text)
    /\ LET n == Len(raw.text)
           end == ChunkEnd(n, out.start, raw.max_chars)
       IN  out' = [out EXCEPT !.chunks = Append(@, Slice(raw.text, out.start, end)),
                              !.start = ChunkStart(n, end, raw.overlap)]
    /\ UNCHANGED <<storeVars, raw>>

\* the loop is left and the chunks returned
ChunkReturn ==
    /\ out # NotComputed /\ ~out.done
    /\ ~(out.start < Len(raw.text))
    /\ out' = [out EXCEPT !.done = TRUE]
    /\ UNCHANGED <<storeVars, raw>>

NextChunks == ChunkEnter \/ ChunkPass \/ ChunkReturn

SpecChunks == InitChunks /\ [][NextChunks]_vars

-----------------------------------------------------------------------------
(* Properties *)

\* whether the last request made the named call
Called(name) == \E i \in 1..Len(ret.calls) : ret.calls[i] = name

\* the rows of the index that carry the id of a product
RowsOf(product) == {j \in 1..Len(table) : table[j].id = UuidStr(product.f["id"].n)}

\* the strings that are empty once stripped
BlankStrings == {"", " "}

\* C1: when text_to_embedding raises for the search text of an initialized store,
\* create_product does not raise: it returns a validated Product whose embeddings are empty.
C1_DegradedCreation ==
    (ret.op = "create_product" /\ ret.embed_failed)
        => /\ ret.status = "return"
           /\ ret.value.t = "ProductInDB"
           /\ ret.value.f["embeddings"] = List(<<>>)
           /\ ret.value.f["name"] = ret.data.d["name"]

C1_Witness ==
    /\ ret.op = "create_product"
    /\ ret.embed_failed
    /\ ret.status = "return"
    /\ embed_model = "model"

\* C2: after any sequence of creates, every Product that create_product returned has exactly
\* one row in the index when its embeddings are non-empty, and none when they are empty.
C2_IndexedIffEmbedded ==
    \A i \in 1..Len(created) :
        Cardinality(RowsOf(created[i])) = IF Truthy(created[i].f["embeddings"]) THEN 1 ELSE 0

C2_Witness ==
    \E i, j \in 1..Len(created) :
        /\ Truthy(created[i].f["embeddings"]) /\ RowsOf(created[i]) # {}
        /\ ~Truthy(created[j].f["embeddings"]) /\ RowsOf(created[j]) = {}

\* C3: a get_product_by_id with the id create_product has just returned, for a product whose
\* embedding succeeded and with the index answering the lookup, returns a Product with the same
\* name, price and category, and with embeddings present as they were in the created Product.
C3_RoundTrip ==
    [][(/\ ret.op = "create_product" /\ ret.status = "return" /\ Truthy(ret.value.f["embeddings"])
        /\ ret'.op = "get_product_by_id" /\ ret'.product_id = PyStr(ret.value.f["id"]) /\ ret'.answered)
          => /\ ret'.status = "return"
             /\ ret'.value # None
             /\ ret'.value.f["name"] = ret.value.f["name"]
             /\ ret'.value.f["price"] = ret.value.f["price"]
             /\ ret'.value.f["category"] = ret.value.f["category"]
             /\ Truthy(ret'.value.f["embeddings"])]_vars

C3_Witness ==
    /\ ret.op = "get_product_by_id"
    /\ ret.answered
    /\ ret.value # None
    /\ created # <<>>
    /\ ret.product_id = PyStr(created[Len(created)].f["id"])
    /\ ret.value.f["name"] = created[Len(created)].f["name"]
    /\ Truthy(created[Len(created)].f["embeddings"])

\* C4: a search_products with a non-blank query on an initialized store, whose embedding and
\* index query went through, returns a list and does not raise.
C4_SearchReturnsList ==
    (/\ ret.op = "search_products" /\ ret.req.query.s \notin BlankStrings
     /\ initialized /\ Called("query") /\ ret.answered)
        => ret.status = "return" /\ IsList(ret.value)

\* C5: the filter a product search hands to the index holds type = "product",
\* whatever the caller's filters hold.
C5_TypeFilterKept ==
    (ret.op = "search_products" /\ Called("search"))
        => Has(ret.index_filter, "type") /\ ret.index_filter.d["type"] = Str("product")

\* the rows the index returns for the last search, and whether a row makes a product
LastHits == Query(table, Encode(ret.req.query.s), ret.req.limit, ret.index_filter)

WellFormed(row) ==
    /\ IsDict(row.meta)
    /\ \A k \in {"id", "name", "description"} : Has(row.meta, k)
    /\ ProductInDB(row.meta).ok

\* C6: a search whose hits hold a record without name returns, in the order of the index,
\* exactly the hits that are complete and valid; the bad record does not fail the search.
C6_MalformedIsolated ==
    (/\ ret.op = "search_products" /\ Called("query") /\ ret.answered
     /\ \E i \in 1..Len(LastHits) : ~WellFormed(LastHits[i]))
        => /\ ret.status = "return"
           /\ IsList(ret.value)
           /\ Len(ret.value.l) = Len(SelectSeq(LastHits, WellFormed))
           /\ \A i \in 1..Len(ret.value.l) : PyStr(ret.value.l[i].f["id"]) = SelectSeq(LastHits, WellFormed)[i].meta.d["id"]

\* clamp(x, lo, hi)
Clamp(x, lo, hi) == IF x < lo THEN lo ELSE IF x > hi THEN hi ELSE x

\* whether a raw result carries a complete product
Complete(result) == StillStr(result.d["metadata"]) \in {CompleteMeta(n) : n \in UuidNums}

\* the similarity score of the product made of the i-th raw result
ScoreOf(i) == out.each[i].v.f["similarity_score"].n

\* C7: every complete result becomes a product whose similarity score is
\* clamp(1 - distance, 0, 1): within [0, 1], 1 for a distance <= 0, 0 for a distance >= 1,
\* and never larger for a larger distance.
C7_SimilarityClamped ==
    out # NotComputed =>
        \A i \in 1..Len(raw.l) :
            Complete(raw.l[i]) =>
                /\ out.each[i].ok
                /\ 0 <= ScoreOf(i) /\ ScoreOf(i) <= DistUnits
                /\ raw.l[i].d["distance"].t = "num" =>
                      /\ ScoreOf(i) = Clamp(DistUnits - raw.l[i].d["distance"].n, 0, DistUnits)
                      /\ raw.l[i].d["distance"].n <= 0 => ScoreOf(i) = DistUnits
                      /\ raw.l[i].d["distance"].n >= DistUnits => ScoreOf(i) = 0
                      /\ \A j \in 1..Len(raw.l) :
                            (Complete(raw.l[j]) /\ raw.l[j].d["distance"].t = "num"
                                /\ raw.l[i].d["distance"].n < raw.l[j].d["distance"].n) => ScoreOf(i) >= ScoreOf(j)

C7_Witness ==
    /\ out # NotComputed
    /\ Len(raw.l) = 2
    /\ Complete(raw.l[1]) /\ Complete(raw.l[2])
    /\ raw.l[1].d["distance"] = Num(-1)
    /\ raw.l[2].d["distance"] = Num(4)
    /\ ScoreOf(1) = DistUnits
    /\ ScoreOf(2) = DistUnits - 4

\* C8: a search_products with an empty or whitespace-only query raises ValueError without
\* having called initialize, the embedding model or the index, and leaves the store as it was.
C8_BlankQueryRejected ==
    [][(ret'.op = "search_products" /\ ret'.req.query.s \in BlankStrings)
          => /\ ret'.status = "raise"
             /\ ret'.exc = "ValueError"
             /\ ret'.calls = <<>>
             /\ UNCHANGED <<tidb_database_url, initialized, embedding_initialized, embed_model, client, table, uuids, clock, created>>]_vars

C8_Witness ==
    /\ ret.op = "search_products"
    /\ ret.req.query.s = " "
    /\ ret.exc = "ValueError"
    /\ ~initialized
    /\ ~embedding_initialized

\* C9: get_product_by_id raises ValueError for an id that is empty or no string; for any other
\* id, once the store is initialized, it returns without raising: None when no row has the id
\* or the row's data make no valid Product, and otherwise a validated Product of that row.
C9_LookupOutcome ==
    ret.op = "get_product_by_id" =>
        IF ret.product_id = Str("") \/ ret.product_id.t # "str"
        THEN ret.status = "raise" /\ ret.exc = "ValueError"
        ELSE /\ ret.status = "raise" => ~initialized
             /\ ret.status = "return" =>
                  /\ ret.value = None \/ ret.value.t = "ProductInDB"
                  /\ (\A j \in 1..Len(table) : Str(table[j].id) # ret.product_id) => ret.value = None
                  /\ (\A j \in 1..Len(table) : Str(table[j].id) = ret.product_id => ~ProductInDB(ProductDictById(table[j].meta, ret.product_id)).ok)
                        => ret.value = None
                  /\ ret.value # None =>
                        \E j \in 1..Len(table) :
                            /\ Str(table[j].id) = ret.product_id
                            /\ ProductInDB(ProductDictById(table[j].meta, ret.product_id)) = Ok(ret.value)

C9_Witness ==
    /\ ret.op = "get_product_by_id"
    /\ ret.status = "return"
    /\ ret.answered
    /\ ret.value = None
    /\ \E j \in 1..Len(table) : Str(table[j].id) = ret.product_id

\* C10: for a raw record of each of the five shapes, the normalisation of get_product_by_id
\* and of get_all_products gives a mapping, never a list, a scalar or null.
C10_NormalizedIsMapping ==
    (out # NotComputed /\ raw \in FiveShapes) => IsDict(out.by_id) /\ IsDict(out.all)

\* C13: normalising the mapping the normalisation has produced gives that mapping again:
\* twice is the same as once.
C13_NormalizeIdempotent ==
    (out # NotComputed /\ IsDict(out.by_id)) => out.twice = out.by_id

\* the documented default of a product field that a record lacks
Documented(k) ==
    CASE k = "id" -> LookedUp
      [] k \in {"name", "description", "care_instructions"} -> Str("")
      [] k = "price" -> Num(0)
      [] k = "category" -> Str("other")
      [] k \in {"materials", "image_urls", "embeddings"} -> List(<<>>)
      [] OTHER -> None

\* the product fields the metadata of a raw record lack
Absent == ProductInDBFields \ DOMAIN raw.d["metadata"].d

\* C11: the read of a record whose metadata lack some product fields yields a Product (it does
\* not fail), each absent field holding its documented default; the default category is a
\* member of ProductCategory.
C11_DefaultsFill ==
    (out # NotComputed /\ raw \in PartialRecords) =>
        /\ \A k \in Absent : out.product_dict.d[k] = Documented(k)
        /\ "category" \in Absent => out.product_dict.d["category"].s \in ProductCategory
        /\ out.product # None

\* C12: every entry of image_urls is parsed on its own: an entry that is a URL is parsed, one
\* that is none is passed through as it is, and the record is still read.
C12_UrlsParsedEach ==
    (out # NotComputed /\ raw \in UrlRecords) =>
        /\ \A i \in 1..Len(raw.d["metadata"].d["image_urls"].l) :
              out.product_dict.d["image_urls"].l[i] =
                  IF raw.d["metadata"].d["image_urls"].l[i].s \in HttpUrls
                  THEN Url(raw.d["metadata"].d["image_urls"].l[i].s)
                  ELSE raw.d["metadata"].d["image_urls"].l[i]
        /\ out.product # None

\* C15: an operation that calls initialize() while the embedding model is not loaded
\* attempts the load again.
C15_LoadReattempted ==
    [][(/\ embed_model = "none"
        /\ ret'.op \in {"lifespan", "create_product", "get_product_by_id", "search_products"}
        /\ \E i \in 1..Len(ret'.calls) : ret'.calls[i] = "initialize")
          => \E i \in 1..Len(ret'.calls) : ret'.calls[i] = "load_model"]_vars

\* C16: a failed model load leaves the model unset and does not abort startup: with the
\* index connected, lifespan's initialize() returns; while the model is unset every
\* text_to_embedding call fails with RuntimeError (search raises it, create degrades).
C16_LoadFailureContained ==
    /\ embedding_initialized <=> embed_model = "model"
    /\ (ret.op = "lifespan" /\ client = "client") => ret.status = "return" /\ initialized
    /\ (ret.op = "search_products" /\ Called("text_to_embedding") /\ embed_model = "none")
          => ret.status = "raise" /\ ret.exc = "RuntimeError" /\ ~Called("query")
    /\ (ret.op = "create_product" /\ Called("text_to_embedding") /\ embed_model = "none")
          => ret.embed_failed /\ ~Called("insert")

C16_Witness ==
    /\ ret.op = "search_products"
    /\ initialized
    /\ embed_model = "none"
    /\ ~embedding_initialized
    /\ ret.exc = "RuntimeError"

\* the number of times the last request made the named call
TimesCalled(name) == Cardinality({i \in 1..Len(ret.calls) : ret.calls[i] = name})

\* C18: a create_product whose index insert fails raises that error and returns no Product;
\* a create_product attempts the insert at most once.
C18_InsertErrorPropagates ==
    ret.op = "create_product" =>
        /\ TimesCalled("insert") <= 1
        /\ TimesCalled("add_documents") <= 1
        /\ (Called("insert") /\ ~ret.inserted) =>
              /\ ret.status = "raise"
              /\ ret.exc = "Exception"
              /\ ret.value = None

C18_Witness ==
    /\ ret.op = "create_product"
    /\ Called("insert")
    /\ ~ret.inserted
    /\ ret.status = "raise"
    /\ table # <<>>

\* C19: a create_product on an initialized store whose index insert does not fail returns a
\* Product, whatever embedding computation failed during the call, and the embeddings of
\* that Product are non-empty exactly when the embedding of the search text succeeded.
C19_NoFailureByEmbedding ==
    (ret.op = "create_product" /\ Called("text_to_embedding") /\ ~(Called("insert") /\ ~ret.inserted)) =>
        /\ ret.status = "return"
        /\ Truthy(ret.value.f["embeddings"]) <=> ~ret.embed_failed

\* the Product that the row with this id makes, when there is one
Stored(product_id, product) ==
    \E j \in 1..Len(table) :
        /\ Str(table[j].id) = product_id
        /\ ProductInDB(ProductDictById(table[j].meta, product_id)) = Ok(product)

\* whether the row with this id makes a Product
Valid(product_id) ==
    \E j \in 1..Len(table) :
        /\ Str(table[j].id) = product_id
        /\ ProductInDB(ProductDictById(table[j].meta, product_id)).ok

C14_InitializedOnce == loaded <= 1 /\ connected <= 1

\* C20: after any interleaving of concurrent creates, every returned Product with embeddings
\* has exactly one row in the index, whose id is the id in its metadata and the id of the
\* Product, and no two creates and no two rows share an id.
C20_CreatesKeepDocuments ==
    /\ \A i \in 1..Len(created) :
           Truthy(created[i].f["embeddings"])
               => /\ Cardinality(RowsOf(created[i])) = 1
                  /\ \A j \in RowsOf(created[i]) : table[j].meta.d["id"] = Str(table[j].id)
    /\ \A i, k \in 1..Len(created) : i # k => created[i].f["id"] # created[k].f["id"]
    /\ \A j, k \in 1..Len(table) : j # k => table[j].id # table[k].id

\* two creates overlapped: the one that drew its id second inserted first, and both are indexed
C20_Witness ==
    /\ Len(created) = 2
    /\ Len(table) = 2
    /\ table[1].id = UuidStr(2)
    /\ table[2].id = UuidStr(1)
    /\ \A i \in 1..2 : Truthy(created[i].f["embeddings"]) /\ Cardinality(RowsOf(created[i])) = 1

\* C27: in every reachable state, an initialized ProductStore has both the index connection
\* and the embedding model set.
C27_InitializedIsComplete == initialized => (client # "none" /\ embed_model # "none")

\* C23: for every raw record, get_all_products and get_product_by_id derive the same
\* metadata mapping.
C23_SameNormalization == out # NotComputed => out.all = out.by_id

\* the documents the last scan read
Scanned == [i \in 1..Len(FirstK(table, ret.limit)) |-> ScannedDoc(table[i], ret.wire)]

\* the scanned documents that normalize and validate
ValidDocs == {i \in 1..Len(Scanned) : BuildAll(Scanned[i]).ok}

\* C21: get_all_products never raises; when the scan is answered it returns, in scan order,
\* exactly the Products of the scanned records that normalize and validate, so an invalid
\* record removes no other record from the result.
C21_InvalidDroppedAlone ==
    ret.op = "get_all_products"
        => /\ ret.status = "return"
           /\ IsList(ret.value)
           /\ (client # "none" /\ ret.answered)
                  => /\ Len(ret.value.l) = Cardinality(ValidDocs)
                     /\ \A i \in ValidDocs :
                            ret.value.l[Cardinality({j \in ValidDocs : j <= i})] = BuildAll(Scanned[i]).v

\* a scan that met an invalid record before a valid one and still returned the valid one
C21_Witness ==
    /\ ret.op = "get_all_products"
    /\ client # "none" /\ ret.answered
    /\ \E i \in ValidDocs : \E j \in 1..Len(Scanned) : j < i /\ j \notin ValidDocs
    /\ Len(ret.value.l) >= 1

\* C26: when the index is not initialized, get_all_products does not answer with an empty
\* list as if the catalog were empty, and it calls initialize() before touching the index.
C26_NotReadyIsDistinct ==
    ret.op = "get_all_products"
        => /\ Called("initialize")
           /\ client = "none" => ~(ret.status = "return" /\ ret.value = List(<<>>))

\* whether a returned product has its price within the range asked for
InRange(product) == product.f["price"].n >= 10 /\ product.f["price"].n <= 50

\* C22: a product search with the price range [10, 50] hands the index the caller's range
\* unchanged together with type = "product", and returns no product priced outside the range.
C22_RangeWithTypeReachesIndex ==
    (/\ ret.op = "search_endpoint"
     /\ Called("query")
     /\ Has(ret.index_filter, "price"))
        => /\ ret.index_filter.d["price"] = PriceRange
           /\ Has(ret.index_filter, "type") /\ ret.index_filter.d["type"] = Str("product")
           /\ ret.status = "return" => InRange(ret.value)

\* name + " " + description + " " + (ai_description or "") of a returned Product
TextOf(product) ==
    product.f["name"].s \o " " \o product.f["description"].s \o " "
        \o (IF product.f["ai_description"] = None THEN "" ELSE product.f["ai_description"].s)

\* C24: for every product create_product indexed, the text of its document, the embed_text in
\* its metadata and the embed_text of the returned Product are the same string, the name, the
\* description and the AI description joined by spaces, and its metadata has type = "product".
C24_EmbedTextAgrees ==
    \A i \in 1..Len(created) : \A j \in RowsOf(created[i]) :
        /\ created[i].f["embed_text"] = Str(TextOf(created[i]))
        /\ table[j].document = TextOf(created[i])
        /\ table[j].meta.d["embed_text"] = Str(TextOf(created[i]))
        /\ table[j].meta.d["type"] = Str("product")

\* an indexed product with an AI description, and one without
C24_Witness ==
    \E i, k \in 1..Len(created) :
        /\ RowsOf(created[i]) # {} /\ created[i].f["ai_description"] # None
        /\ RowsOf(created[k]) # {} /\ created[k].f["ai_description"] = None

\* whether the last create was given an image
WithImage == ret.op = "create_product" /\ "file" \in DOMAIN ret /\ ret.file.image_file # None

\* C25: when image bytes and a file name are given to create_product, the failure of the AI
\* description generation does not abort the creation: nothing is raised for it, a create
\* whose embedding failed as well still returns, and the returned Product has the
\* ai_description of the product data.
C25_ImageFailureContained ==
    WithImage
        => /\ ret.status = "raise" => ret.exc # "AttributeError"
           /\ ret.embed_failed => ret.status = "return"
           /\ ret.status = "return"
                  => /\ ret.value.f["ai_description"] = ret.data.d["ai_description"]
                     /\ ret.value.f["name"] = ret.data.d["name"]

\* a create with an image that returned an indexed Product, the uploaded URL first
C25_Witness ==
    /\ WithImage
    /\ ret.status = "return"
    /\ Called("generate_ai_description")
    /\ RowsOf(ret.value) # {}
    /\ Len(ret.value.f["image_urls"].l) = Len(ret.data.d["image_urls"].l) + 1

\* C28: after any interleaving of concurrent registrations, each email is registered to at
\* most one user, the user records have distinct ids and passids, and the email and passid
\* indexes point to existing user records.
C28_OneUserPerEmail ==
    /\ \A u, v \in DOMAIN redis.users :
           u # v => /\ redis.users[u].email # redis.users[v].email
                    /\ redis.users[u].passid # redis.users[v].passid
                    /\ redis.users[u].id # redis.users[v].id
    /\ \A e \in DOMAIN redis.emails : redis.emails[e] \in DOMAIN redis.users
    /\ \A p \in DOMAIN redis.passids : redis.passids[p] \in DOMAIN redis.users

\* C29: a login that returns a token while no other request is in flight leaves that token in
\* the cache with 86400 s to live, and a login that is refused changes nothing in Redis.
C29_LoginReturnsCached ==
    [][\A t \in Tasks :
          (/\ tasks[t].at # "idle" /\ tasks[t].op = "login_user" /\ tasks'[t].at = "idle"
           /\ \A u \in Tasks \ {t} : tasks[u].at = "idle")
              => /\ ret'.status = "return"
                      => /\ Key(ret'.value.uid, redis'.tokens)
                         /\ redis'.tokens[ret'.value.uid] = [token |-> ret'.value.access_token, ttl |-> TokenTtl]
                 /\ ret'.status = "raise" => redis' = redis]_vars

\* the position in the text of the first and of the last character of a chunk
PositionOf(char) == CHOOSE i \in 1..Len(raw.text) : raw.text[i] = char

StartOf(chunk) == PositionOf(chunk[1]) - 1

EndOf(chunk) == PositionOf(chunk[Len(chunk)])

\* C30: for 0 <= overlap < max_chars chunk_text terminates (every pass of the loop adds a
\* chunk, and there are never more chunks than characters), and its chunks cover the text in
\* order: the first starts at position 0, the last ends at the end of the text, each has at
\* most max_chars characters and is the text between its ends, and each chunk after the first
\* starts overlap characters before the end of the one before; the empty text gives no chunk.
C30_ChunksCoverText ==
    out # NotComputed =>
        LET chunks == out.chunks
            n == Len(raw.text)
        IN  /\ Len(chunks) <= n
            /\ \A k \in 1..Len(chunks) :
                   /\ Len(chunks[k]) \in 1..raw.max_chars
                   /\ chunks[k] = Slice(raw.text, StartOf(chunks[k]), EndOf(chunks[k]))
                   /\ k = 1 => StartOf(chunks[k]) = 0
                   /\ k > 1 => StartOf(chunks[k]) = EndOf(chunks[k - 1]) - raw.overlap
            /\ out.done => IF n = 0 THEN chunks = <<>> ELSE chunks # <<>> /\ EndOf(chunks[Len(chunks)]) = n

C30_Witness ==
    /\ out # NotComputed /\ out.done
    /\ raw.overlap > 0
    /\ Len(out.chunks) >= 3
    /\ Len(out.chunks[Len(out.chunks)]) < raw.max_chars

====
